---- MODULE Spec2Model ----
(***************************************************************************)
(* Hybrid lexical/semantic retrieval of the Legal-Content-Generator:       *)
(* BM25Preprocessor (lexical index), LegalKnowledgeIndexer (semantic       *)
(* index), HybridRetrieval (retrieve-then-rerank) and the RetrievalAgent   *)
(* that drives it.                                                         *)
(*                                                                         *)
(* Text is a sequence of atoms.  An atom is either one character of        *)
(* whitespace or punctuation, or one indivisible run of word characters    *)
(* ("pay", "Section", ...).  Adjacent word atoms form one longer word, so  *)
(* a token is a sequence of word atoms.                                    *)
(***************************************************************************)
EXTENDS Integers, Sequences, FiniteSets, TLC

\* ------------------------------------------------------------------ bounds
MaxFiles   == 2   \* files in the corpus directory
MaxEntries == 2   \* entries in the whole corpus
MaxTopK    == 2   \* largest top_k passed to a query
MaxFreq    == 4   \* largest term frequency a contribution is computed for
MaxDepth   == 2   \* deepest nesting of the list items of an entry
MaxItems   == 2   \* items in the list of a block
MaxLines   == 4   \* lines of a document given to parse_document
MaxLevel   == 2   \* largest level of an <ITEM> line
MaxChunks  == 2   \* chunks a retrieval returns to the GUI
MaxQueries == 2   \* queries typed into the GUI

\* ------------------------------------------------------------- characters
NL == "\n"
SP == " "
Bullet == "(bullet)"   \* the character U+2022
WhiteSpace == {SP, NL}
WordAtoms  == {"pay", "law", "tax", "s", "Law", "Section", "Subsection",
               "section", "subsection"}

IsWord(c)  == c \in WordAtoms
IsSpace(c) == c \in WhiteSpace

SecPrefix    == <<"Section", ":">>
SubsecPrefix == <<"Subsection", ":">>

\* ---------------------------------------------------------- str methods
RECURSIVE LStripChars(_, _)
LStripChars(s, chars) ==
    IF s /= <<>> /\ Head(s) \in chars THEN LStripChars(Tail(s), chars) ELSE s

RECURSIVE RStripChars(_, _)
RStripChars(s, chars) ==
    IF s /= <<>> /\ s[Len(s)] \in chars
    THEN RStripChars(SubSeq(s, 1, Len(s) - 1), chars) ELSE s

Strip(s) == RStripChars(LStripChars(s, WhiteSpace), WhiteSpace)

StartsWith(s, prefix) ==
    Len(s) >= Len(prefix) /\ SubSeq(s, 1, Len(prefix)) = prefix

\* position of the first line break of s, 0 when there is none
FirstNL(s) ==
    IF \E i \in 1..Len(s) : s[i] = NL
    THEN CHOOSE i \in 1..Len(s) : s[i] = NL /\ \A j \in 1..(i - 1) : s[j] /= NL
    ELSE 0

\* str.splitlines(): no trailing empty line, "" gives []
RECURSIVE SplitLines(_)
SplitLines(s) ==
    IF s = <<>> THEN <<>>
    ELSE LET i == FirstNL(s) IN
         IF i = 0 THEN <<s>>
         ELSE <<SubSeq(s, 1, i - 1)>> \o SplitLines(SubSeq(s, i + 1, Len(s)))

\* sep.join(lines)
RECURSIVE Join(_, _)
Join(lines, sep) ==
    IF lines = <<>> THEN <<>>
    ELSE IF Len(lines) = 1 THEN lines[1]
    ELSE lines[1] \o sep \o Join(Tail(lines), sep)

Spaces(n) == [i \in 1..n |-> SP]

\* ------------------------------------------------ BM25Preprocessor.normalize
Lower(c) ==
    CASE c = "Section"    -> "section"
      [] c = "Subsection" -> "subsection"
      [] c = "Law"        -> "law"
      [] OTHER            -> c

LowerAll(s) == [i \in 1..Len(s) |-> Lower(s[i])]

\* re.sub(r"\b(\w+)'s\b", r"\1", text): prevWord says that the atom before s
\* is a word atom that no earlier match has consumed
RECURSIVE Possessive(_, _)
Possessive(s, prevWord) ==
    IF s = <<>> THEN <<>>
    ELSE IF /\ prevWord
            /\ Len(s) >= 2
            /\ s[1] = "'"
            /\ s[2] = "s"
            /\ (Len(s) = 2 \/ ~IsWord(s[3]))
         THEN Possessive(SubSeq(s, 3, Len(s)), FALSE)
         ELSE <<s[1]>> \o Possessive(Tail(s), IsWord(s[1]))

\* re.sub(r"[^\w\s]", " ", text)
PunctToSpace(s) ==
    [i \in 1..Len(s) |-> IF IsWord(s[i]) \/ IsSpace(s[i]) THEN s[i] ELSE SP]

\* re.sub(r"\s+", " ", text)
RECURSIVE Collapse(_)
Collapse(s) ==
    IF s = <<>> THEN <<>>
    ELSE IF IsSpace(s[1])
         THEN <<SP>> \o Collapse(LStripChars(s, WhiteSpace))
         ELSE <<s[1]>> \o Collapse(Tail(s))

normalize(text) ==
    Strip(Collapse(PunctToSpace(Possessive(LowerAll(text), FALSE))))

\* str.split(): the maximal runs of non-whitespace atoms
RECURSIVE Split(_)
Split(s) ==
    LET t == LStripChars(s, WhiteSpace) IN
    IF t = <<>> THEN <<>>
    ELSE LET n == IF \E i \in 1..Len(t) : IsSpace(t[i])
                  THEN (CHOOSE i \in 1..Len(t) :
                            IsSpace(t[i]) /\ \A j \in 1..(i - 1) : ~IsSpace(t[j])) - 1
                  ELSE Len(t)
         IN <<SubSeq(t, 1, n)>> \o Split(SubSeq(t, n + 1, Len(t)))

\* ------------------------------------------ BM25Preprocessor.flatten_content
\* the nested items emitted before the item they belong to
RECURSIVE BM25ProcessListChildrenFirst(_, _)
BM25ProcessListChildrenFirst(items, depth) ==
    IF items = <<>> THEN <<>>
    ELSE LET item == Head(items)
             raw  == Strip(item.text)
             line == IF depth = 0 THEN raw
                     ELSE Spaces(depth * 8) \o <<"*", SP>>
                          \o Strip(LStripChars(raw, {Bullet, SP}))
             sub  == IF item.list /= <<>>
                     THEN BM25ProcessListChildrenFirst(item.list, depth + 1)
                     ELSE <<>>
         IN sub \o <<line>> \o BM25ProcessListChildrenFirst(Tail(items), depth)

RECURSIVE BM25ProcessList(_, _)
BM25ProcessList(items, depth) ==
    IF items = <<>> THEN <<>>
    ELSE LET item == Head(items)
             raw  == Strip(item.text)
             line == IF depth = 0 THEN raw
                     ELSE Spaces(depth * 8) \o <<"*", SP>>
                          \o Strip(LStripChars(raw, {Bullet, SP}))
             sub  == IF item.list /= <<>>
                     THEN BM25ProcessList(item.list, depth + 1) ELSE <<>>
         IN <<line>> \o sub \o BM25ProcessList(Tail(items), depth)

RECURSIVE BM25Blocks(_)
BM25Blocks(blocks) ==
    IF blocks = <<>> THEN <<>>
    ELSE LET block == Head(blocks)
             text  == Strip(block.text)
         IN (IF text /= <<>> THEN <<text>> ELSE <<>>)
            \o BM25ProcessList(block.list, 0)
            \o BM25Blocks(Tail(blocks))

BM25FlattenLines(entry) ==
    (IF entry.Section /= <<>>
     THEN <<SecPrefix \o <<SP>> \o entry.Section \o <<".">>>> ELSE <<>>)
    \o (IF entry.Subsection /= <<>>
        THEN <<SubsecPrefix \o <<SP>> \o entry.Subsection \o <<".">>>> ELSE <<>>)
    \o BM25Blocks(entry.Content)

BM25Flatten(entry) == Join(BM25FlattenLines(entry), <<NL>>)

\* ------------------------------------- LegalKnowledgeIndexer.flatten_content
RECURSIVE LKIProcessList(_, _)
LKIProcessList(items, depth) ==
    IF items = <<>> THEN <<>>
    ELSE LET item == Head(items)
             raw  == Strip(item.text)
             line == IF depth = 0 THEN raw
                     ELSE Spaces(depth * 8) \o <<"-", SP>>
                          \o Strip(LStripChars(raw, {Bullet, SP}))
             sub  == IF item.list /= <<>>
                     THEN LKIProcessList(item.list, depth + 1) ELSE <<>>
         IN <<line>> \o sub \o LKIProcessList(Tail(items), depth)

RECURSIVE LKIBlocks(_)
LKIBlocks(blocks) ==
    IF blocks = <<>> THEN <<>>
    ELSE LET block == Head(blocks)
             text  == Strip(block.text)
         IN (IF text /= <<>> THEN <<text>> ELSE <<>>)
            \o LKIProcessList(block.list, 0)
            \o LKIBlocks(Tail(blocks))

\* the blank lines inserted between the flattened lines
RECURSIVE LKIOutLines(_)
LKIOutLines(lines) ==
    IF lines = <<>> THEN <<>>
    ELSE IF Len(lines) = 1 THEN lines
    ELSE LET ln             == lines[1]
             next_ln        == LStripChars(lines[2], WhiteSpace)
             next_is_bullet == StartsWith(next_ln, <<Bullet>>)
                               \/ StartsWith(next_ln, <<"-">>)
             is_heading     == StartsWith(ln, SecPrefix)
                               \/ StartsWith(ln, SubsecPrefix)
         IN <<ln>>
            \o (IF (is_heading /\ next_is_bullet) \/ ~next_is_bullet
                THEN << <<>> >> ELSE <<>>)
            \o LKIOutLines(Tail(lines))

LKIFlatten(entry) == Join(LKIOutLines(LKIBlocks(entry.Content)), <<NL>>)

\* ------------------------------------------------------------- the corpus
\* A corpus entry: Section, Subsection (<<>> when absent or empty) and the
\* Content blocks, each with a text and a nested list of items.  The corpus
\* directory names its entries; EntryOf gives the JSON object of a name.
Item(text, sub)  == [text |-> text, list |-> sub]
Block(text, lst) == [text |-> text, list |-> lst]

EntryOf(name) ==
    CASE name = "plain" ->          \* headings and one paragraph
           [Section |-> <<"pay">>, Subsection |-> <<"law">>,
            Content |-> << Block(<<"pay", SP, "law">>, <<>>) >>]
      [] name = "heading_only" ->   \* a heading with no content under it
           [Section |-> <<"law">>, Subsection |-> <<>>, Content |-> <<>>]
      [] name = "list" ->   \* no heading; an empty item, an item, a nested item
           [Section |-> <<>>, Subsection |-> <<>>,
            Content |-> << Block(<<>>,
               << Item(<<>>, <<>>),
                  Item(<<"Section", ":", SP, "pay">>,
                       << Item(<<Bullet, SP, "law">>, <<>>) >>) >>) >>]
      [] name = "blank" ->          \* nothing but whitespace
           [Section |-> <<>>, Subsection |-> <<>>,
            Content |-> << Block(<<SP>>, <<>>) >>]
      [] name = "punct" ->          \* text without any word character
           [Section |-> <<>>, Subsection |-> <<>>,
            Content |-> << Block(<<".">>, <<>>) >>]

EntryPool == {"plain", "heading_only", "list", "blank", "punct"}

\* the file names a corpus directory may hold, in sorted() order
NamePool == <<"a.json", "b.JSON", "c.json">>

\* fname.endswith(".json") and fname.lower().endswith(".json")
EndsWithJson(fname)      == fname \in {"a.json", "c.json"}
LowerEndsWithJson(fname) == fname \in {"a.json", "b.JSON", "c.json"}

\* the non-empty sequences over S of length at most n
SeqsUpTo(S, n) == UNION {[1..k -> S] : k \in 1..n}

RECURSIVE TotalEntries(_)
TotalEntries(dir) ==
    IF dir = <<>> THEN 0 ELSE Len(Head(dir).entries) + TotalEntries(Tail(dir))

\* strictly increasing sequences of k positions of NamePool
NameChoices(k) ==
    {c \in [1..k -> 1..Len(NamePool)] : \A i \in 1..(k - 1) : c[i] < c[i + 1]}

\* the corpus directories: at most MaxFiles files, each a non-empty JSON array,
\* at most MaxEntries entries in all
Corpora ==
    LET files == UNION {
            {[i \in 1..k |-> [fname |-> NamePool[c[i]], entries |-> es[i]]] :
                 c \in NameChoices(k),
                 es \in [1..k -> SeqsUpTo(EntryPool, MaxEntries)]} :
            k \in 0..MaxFiles}
    IN {d \in files : TotalEntries(d) <= MaxEntries}

\* ------------------------------------------------- entries to be flattened
\* the texts a block or an item may carry: empty, whitespace only, plain,
\* and with the bullet of the source document in front
FlattenTexts == { <<>>, <<SP>>, <<"pay">>, <<Bullet, SP, "law">> }

\* the items that may stand at nesting depth d: any text, and at most one
\* nested item below depth 0
RECURSIVE ItemsAt(_)
ItemsAt(d) ==
    IF d > MaxDepth THEN {}
    ELSE {Item(t, l) : t \in FlattenTexts,
                       l \in {<<>>} \cup {<<i>> : i \in ItemsAt(d + 1)}}

\* the sequences over S of length at most n, the empty one included
ListsUpTo(S, n) == {<<>>} \cup SeqsUpTo(S, n)

\* the lists of a block: at most MaxItems items, the first or the last of
\* which may have nested items
NestedLists ==
    LET leaves == ListsUpTo(ItemsAt(MaxDepth), MaxItems - 1)
    IN {<<>>} \cup {<<i>> \o rest : i \in ItemsAt(0), rest \in leaves}
              \cup {rest \o <<i>> : i \in ItemsAt(0), rest \in leaves}

\* entries of one block with a list of nested items, and entries of two
\* blocks with at most one item each
FlattenEntries ==
    LET deep    == {Block(t, l) : t \in FlattenTexts, l \in NestedLists}
        shallow == {Block(t, l) : t \in FlattenTexts,
                                  l \in ListsUpTo(ItemsAt(MaxDepth), 1)}
    IN {[Section |-> <<>>, Subsection |-> <<>>, Content |-> <<blk>>] :
            blk \in deep}
       \cup {[Section |-> <<"pay">>, Subsection |-> <<>>,
               Content |-> <<b1, b2>>] : b1 \in shallow, b2 \in shallow}

\* the queries a user may type
Queries == { <<"pay">>,
             <<"Law", "'", "s", SP, "tax">>,
             <<"pay", SP, "law", ".">> }

\* ------------------------------------------------------- Python sequences
\* Python lists are indexed from 0 and a negative index counts from the end.
PyInRange(seq, i) == -Len(seq) <= i /\ i < Len(seq)
PyAt(seq, i)      == IF i >= 0 THEN seq[i + 1] ELSE seq[Len(seq) + i + 1]

\* list.index(v): position of the first occurrence
PyIndexOf(seq, v) ==
    (CHOOSE i \in 1..Len(seq) : seq[i] = v /\ \A j \in 1..(i - 1) : seq[j] /= v) - 1

RECURSIVE SortedSeq(_)
SortedSeq(S) ==
    IF S = {} THEN <<>>
    ELSE LET m == CHOOSE v \in S : \A w \in S : v <= w
         IN <<m>> \o SortedSeq(S \ {m})

RECURSIVE SumSeq(_)
SumSeq(seq) == IF seq = <<>> THEN 0 ELSE Head(seq) + SumSeq(Tail(seq))

Range(seq) == {seq[i] : i \in 1..Len(seq)}
Min(a, c)  == IF a < c THEN a ELSE c

\* ------------------------------------------------------------ arithmetic
\* Scores are Python floats; the model keeps them in fixed point, scaled by
\* 10000, and computes math.log(a / c) by its series
\*   ln(a/c) = 2 * (z + z^3/3 + z^5/5 + ...),  z = (a - c) / (a + c).
RECURSIVE AtanhSeries(_, _, _)
AtanhSeries(z, p, k) ==
    IF k > 12 THEN 0
    ELSE (p \div (2 * k + 1))
         + AtanhSeries(z, (((p * z) \div 10000) * z) \div 10000, k + 1)

LogFP(a, c) ==
    LET z == ((a - c) * 10000) \div (a + c) IN 2 * AtanhSeries(z, z, 0)

\* BM25Preprocessor(json_dir, k1=1.5, b=0.75)
k1 == [num |-> 3, den |-> 2]
b  == [num |-> 3, den |-> 4]

\* ----------------------------------- LegalKnowledgeIndexer (semantic index)
\* A chunk_id is f"{fname}_chunk_{i}", kept as the pair <<fname, i>>.
ChunkId(fname, i) == <<fname, i>>

\* the chunks load_and_flatten keeps of one file: the non-empty flattenings,
\* each with the position of its entry in the file
RECURSIVE LKIFileChunks(_, _)
LKIFileChunks(entries, entry_idx) ==
    IF entries = <<>> THEN <<>>
    ELSE LET chunk == LKIFlatten(EntryOf(Head(entries)))
         IN (IF chunk /= <<>>
             THEN << [text |-> chunk, entry |-> entry_idx] >> ELSE <<>>)
            \o LKIFileChunks(Tail(entries), entry_idx + 1)

\* load_and_flatten: file_chunks[fname] for every *.json file, in sorted order
RECURSIVE LKILoadAndFlatten(_)
LKILoadAndFlatten(dir) ==
    IF dir = <<>> THEN <<>>
    ELSE (IF EndsWithJson(Head(dir).fname)
          THEN << [fname  |-> Head(dir).fname,
                   chunks |-> LKIFileChunks(Head(dir).entries, 0)] >>
          ELSE <<>>)
         \o LKILoadAndFlatten(Tail(dir))

\* build_index, first loop: the (chunk, id, source entry) triples appended
RECURSIVE LKIGather(_)
LKIGather(fc) ==
    IF fc = <<>> THEN <<>>
    ELSE [i \in 1..Len(Head(fc).chunks) |->
             [chunk |-> Head(fc).chunks[i].text,
              id    |-> ChunkId(Head(fc).fname, i - 1),
              src   |-> <<Head(fc).fname, Head(fc).chunks[i].entry>>]]
         \o LKIGather(Tail(fc))

\* -------------------------------------- BM25Preprocessor (lexical index)
RECURSIVE BM25FileChunks(_, _, _)
BM25FileChunks(fname, entries, entry_idx) ==
    IF entries = <<>> THEN <<>>
    ELSE LET chunk == BM25Flatten(EntryOf(Head(entries)))
         IN (IF chunk /= <<>>
             THEN << [chunk |-> chunk, src |-> <<fname, entry_idx>>] >>
             ELSE <<>>)
            \o BM25FileChunks(fname, Tail(entries), entry_idx + 1)

\* load_and_prepare, first loop: the chunks of every file whose lower-cased
\* name ends with .json, in sorted order
RECURSIVE BM25Gather(_)
BM25Gather(dir) ==
    IF dir = <<>> THEN <<>>
    ELSE (IF LowerEndsWithJson(Head(dir).fname)
          THEN BM25FileChunks(Head(dir).fname, Head(dir).entries, 0)
          ELSE <<>>)
         \o BM25Gather(Tail(dir))

\* ------------------------------------------------- malformed corpus files
\* A file json.load cannot parse is kept as the content NotJson; an entry of
\* a parsed array that is not a JSON object (null, a number) is named
\* BadEntry.
NotJson  == <<"not_json">>
BadEntry == "not_an_object"

\* what reading and flattening a file of this content raises: json.load
\* raises on text that is not JSON, entry.get raises on a non-object
FileError(entries) ==
    IF entries = NotJson THEN "JSONDecodeError"
    ELSE IF \E i \in 1..Len(entries) : entries[i] = BadEntry
         THEN "AttributeError"
         ELSE "none"

\* the entries the inner loop has flattened before the file raises
GoodPrefix(entries) ==
    IF entries = NotJson THEN <<>>
    ELSE SubSeq(entries, 1,
                (CHOOSE i \in 1..Len(entries) :
                     /\ entries[i] = BadEntry
                     /\ \A j \in 1..(i - 1) : entries[j] /= BadEntry) - 1)

\* load_and_flatten over a directory that may hold a malformed file: nothing
\* catches the exception, and the file's own assignment to file_chunks comes
\* after its loop
RECURSIVE LKILoadAndFlattenChecked(_)
LKILoadAndFlattenChecked(dir) ==
    IF dir = <<>> THEN [file_chunks |-> <<>>, err |-> "none"]
    ELSE IF ~EndsWithJson(Head(dir).fname)
         THEN LKILoadAndFlattenChecked(Tail(dir))
    ELSE IF FileError(Head(dir).entries) /= "none"
         THEN [file_chunks |-> <<>>, err |-> FileError(Head(dir).entries)]
    ELSE LET r == LKILoadAndFlattenChecked(Tail(dir))
         IN [r EXCEPT !.file_chunks =
                << [fname  |-> Head(dir).fname,
                    chunks |-> LKIFileChunks(Head(dir).entries, 0)] >> \o @]

\* load_and_prepare, first loop, over a directory that may hold a malformed
\* file: the chunks appended until the exception leaves the method
RECURSIVE BM25GatherChecked(_)
BM25GatherChecked(dir) ==
    IF dir = <<>> THEN [chunks |-> <<>>, err |-> "none"]
    ELSE IF ~LowerEndsWithJson(Head(dir).fname)
         THEN BM25GatherChecked(Tail(dir))
    ELSE IF FileError(Head(dir).entries) /= "none"
         THEN [chunks |-> BM25FileChunks(Head(dir).fname,
                                         GoodPrefix(Head(dir).entries), 0),
               err |-> FileError(Head(dir).entries)]
    ELSE LET r == BM25GatherChecked(Tail(dir))
         IN [r EXCEPT !.chunks =
                BM25FileChunks(Head(dir).fname, Head(dir).entries, 0) \o @]

\* the state of a BM25Preprocessor after __init__
BM25New ==
    [raw_chunks |-> <<>>, normalised_chunks |-> <<>>, src |-> <<>>,
     N |-> 0, avgdl |-> [num |-> 0, den |-> 1], doc_len |-> <<>>,
     df |-> <<>>, postings |-> <<>>, idf |-> <<>>]

\* idf of a term: math.log((N - df + 0.5) / (df + 0.5) + 1)
Idf(n, dfv) == LogFP((2 * (n - dfv) + 1) + (2 * dfv + 1), 2 * dfv + 1)

\* tf_counts[tok] = 1 for every token met, the count left out
TfPresence(tf_counts, tok) ==
    IF \E i \in 1..Len(tf_counts) : tf_counts[i].tok = tok
    THEN tf_counts
    ELSE Append(tf_counts, [tok |-> tok, freq |-> 1])

\* tf_counts[tok] += 1 on a defaultdict(int), kept as the sequence of its
\* items in insertion order
TfIncrement(tf_counts, tok) ==
    IF \E i \in 1..Len(tf_counts) : tf_counts[i].tok = tok
    THEN [i \in 1..Len(tf_counts) |->
             IF tf_counts[i].tok = tok
             THEN [tok |-> tok, freq |-> tf_counts[i].freq + 1]
             ELSE tf_counts[i]]
    ELSE Append(tf_counts, [tok |-> tok, freq |-> 1])

\* for tok in tokens: tf_counts[tok] += 1
RECURSIVE TfCounts(_, _)
TfCounts(tokens, tf_counts) ==
    IF tokens = <<>> THEN tf_counts
    ELSE TfCounts(Tail(tokens), TfIncrement(tf_counts, Head(tokens)))

\* self.df[tok] = 1: the frequency set instead of incremented
DfOverwrite(df, tok) ==
    [t \in DOMAIN df \cup {tok} |-> IF t = tok THEN 1 ELSE df[t]]

\* self.df[tok] += 1 on a defaultdict(int)
DfIncrement(df, tok) ==
    [t \in DOMAIN df \cup {tok} |->
        IF t = tok THEN (IF tok \in DOMAIN df THEN df[tok] ELSE 0) + 1
        ELSE df[t]]

\* self.postings[tok][idx] = freq on a defaultdict(dict)
PostingsSet(postings, tok, idx, freq) ==
    LET old == IF tok \in DOMAIN postings THEN postings[tok] ELSE <<>>
    IN [t \in DOMAIN postings \cup {tok} |->
           IF t = tok
           THEN [d \in DOMAIN old \cup {idx} |-> IF d = idx THEN freq ELSE old[d]]
           ELSE postings[t]]

\* for tok, freq in tf_counts.items(): df and postings of document idx
RECURSIVE IndexItems(_, _, _)
IndexItems(bm, idx, items) ==
    IF items = <<>> THEN bm
    ELSE IndexItems(
             [bm EXCEPT !.df = DfIncrement(@, Head(items).tok),
                        !.postings = PostingsSet(@, Head(items).tok, idx,
                                                 Head(items).freq)],
             idx, Tail(items))

\* for idx, doc in enumerate(self.normalised_chunks), from document idx on;
\* the result holds the preprocessor and total_len
RECURSIVE IndexDocs(_, _, _)
IndexDocs(bm, idx, total_len) ==
    IF idx >= Len(bm.normalised_chunks)
    THEN [bm |-> bm, total_len |-> total_len]
    ELSE LET tokens == Split(bm.normalised_chunks[idx + 1])
             dl     == Len(tokens)
         IN IndexDocs(
                IndexItems([bm EXCEPT !.doc_len = Append(@, dl)], idx,
                           TfCounts(tokens, <<>>)),
                idx + 1, total_len + dl)

\* total_len // self.N: the mean rounded down
AvgdlFloor(total_len, n) ==
    IF n /= 0 THEN [num |-> total_len \div n, den |-> 1]
              ELSE [num |-> 0, den |-> 1]

\* total_len / self.N if self.N else 0, kept as numerator and denominator
Avgdl(total_len, n) ==
    IF n /= 0 THEN [num |-> total_len, den |-> n] ELSE [num |-> 0, den |-> 1]

\* load_and_prepare on the preprocessor state bm over the directory dir
BM25LoadAndPrepare(bm, dir) ==
    LET new    == BM25Gather(dir)
        loaded == [bm EXCEPT
                      !.raw_chunks = @ \o [i \in 1..Len(new) |-> new[i].chunk],
                      !.normalised_chunks =
                          @ \o [i \in 1..Len(new) |-> normalize(new[i].chunk)],
                      !.src = @ \o [i \in 1..Len(new) |-> new[i].src]]
        n      == Len(loaded.normalised_chunks)
        ix     == IndexDocs([loaded EXCEPT !.N = n], 0, 0)
    IN [ix.bm EXCEPT
           !.avgdl = Avgdl(ix.total_len, n),
           !.idf = [t \in DOMAIN ix.bm.idf \cup DOMAIN ix.bm.df |->
                       IF t \in DOMAIN ix.bm.df THEN Idf(n, ix.bm.df[t])
                       ELSE ix.bm.idf[t]]]

\* load_and_prepare over a directory that may hold a malformed file: the
\* exception of the first loop leaves the method before N, doc_len, df,
\* postings, avgdl and idf are computed
BM25LoadAndPrepareChecked(bm, dir) ==
    LET g == BM25GatherChecked(dir)
    IN IF g.err = "none"
       THEN [bm |-> BM25LoadAndPrepare(bm, dir), err |-> "none"]
       ELSE [bm |-> [bm EXCEPT
                        !.raw_chunks =
                            @ \o [i \in 1..Len(g.chunks) |-> g.chunks[i].chunk],
                        !.normalised_chunks =
                            @ \o [i \in 1..Len(g.chunks) |->
                                      normalize(g.chunks[i].chunk)],
                        !.src = @ \o [i \in 1..Len(g.chunks) |-> g.chunks[i].src]],
             err |-> g.err]

\* the term frequency left out of the denominator: linear in freq
ContributionLinear(idfv, freq, dl, avg) ==
    (idfv * freq * (k1.num + k1.den) * b.den * avg.num)
    \div (k1.den * b.den * avg.num
          + k1.num * ((b.den - b.num) * avg.num + b.num * dl * avg.den))

\* idf * freq * (k1 + 1) / (freq + k1 * (1 - b + b * dl / avgdl)), as one
\* fraction over the integers; avgdl /= 0 here
Contribution(idfv, freq, dl, avg) ==
    (idfv * freq * (k1.num + k1.den) * b.den * avg.num)
    \div (freq * k1.den * b.den * avg.num
          + k1.num * ((b.den - b.num) * avg.num + b.num * dl * avg.den))

\* scores[doc_id] = scores.get(doc_id, 0.0) + c, on a dict kept as the
\* sequence of its items in insertion order
AddScore(scores, doc_id, c) ==
    IF \E i \in 1..Len(scores) : scores[i].doc_id = doc_id
    THEN [i \in 1..Len(scores) |->
             IF scores[i].doc_id = doc_id
             THEN [doc_id |-> doc_id, score |-> scores[i].score + c]
             ELSE scores[i]]
    ELSE Append(scores, [doc_id |-> doc_id, score |-> c])

\* the candidate filter left out: every posting is scored
IsCandidateAlways(doc_id, candidate_ids) == TRUE

\* if doc_id not in candidate_ids: continue
IsCandidate(doc_id, candidate_ids) == doc_id \in candidate_ids

\* the guard left out over a plain dict: self.postings[tok] raises on a term
\* the corpus does not hold
PostingsOfUnguarded(bm, tok) ==
    IF tok \notin DOMAIN bm.postings
    THEN [err |-> "KeyError", docs |-> <<>>]
    ELSE [err |-> "none", docs |-> SortedSeq(DOMAIN bm.postings[tok])]

\* if tok not in self.postings: continue; otherwise the documents of
\* self.postings[tok] in the order the dict holds them (ascending doc_id)
PostingsOf(bm, tok) ==
    IF tok \notin DOMAIN bm.postings
    THEN [err |-> "none", docs |-> <<>>]
    ELSE [err |-> "none", docs |-> SortedSeq(DOMAIN bm.postings[tok])]

\* self.idf.get(tok, 0.0)
IdfGet(bm, tok) == IF tok \in DOMAIN bm.idf THEN bm.idf[tok] ELSE 0

\* the average length taken over the candidates instead of the corpus
CandidateAvgdl(bm, candidate_ids) ==
    LET c == SortedSeq({d \in candidate_ids : d >= 0 /\ d < Len(bm.doc_len)})
    IN [num |-> SumSeq([i \in 1..Len(c) |-> bm.doc_len[c[i] + 1]]),
        den |-> Len(c)]

\* the inner loop scoring against the statistics of the candidates only
RECURSIVE ScoreDocsOverCandidates(_, _, _, _, _)
ScoreDocsOverCandidates(bm, tok, docs, candidate_ids, acc) ==
    IF docs = <<>> \/ acc.err /= "none" THEN acc
    ELSE LET doc_id == Head(docs)
             rest   == Tail(docs)
             avg    == CandidateAvgdl(bm, candidate_ids)
         IN IF doc_id \notin candidate_ids
            THEN ScoreDocsOverCandidates(bm, tok, rest, candidate_ids, acc)
            ELSE IF ~PyInRange(bm.doc_len, doc_id)
            THEN [acc EXCEPT !.err = "IndexError"]
            ELSE IF avg.num = 0
            THEN [acc EXCEPT !.err = "ZeroDivisionError"]
            ELSE ScoreDocsOverCandidates(bm, tok, rest, candidate_ids,
                    [acc EXCEPT !.scores = AddScore(@, doc_id,
                        Contribution(
                            IF tok \in DOMAIN bm.idf THEN bm.idf[tok] ELSE 0,
                            bm.postings[tok][doc_id],
                            PyAt(bm.doc_len, doc_id), avg))])

\* the inner loop of score_subset over the postings of one term
RECURSIVE ScoreDocs(_, _, _, _, _)
ScoreDocs(bm, tok, docs, candidate_ids, acc) ==
    IF docs = <<>> \/ acc.err /= "none" THEN acc
    ELSE LET doc_id == Head(docs)
             rest   == Tail(docs)
         IN IF ~IsCandidate(doc_id, candidate_ids)
            THEN ScoreDocs(bm, tok, rest, candidate_ids, acc)
            ELSE IF ~PyInRange(bm.doc_len, doc_id)
            THEN [acc EXCEPT !.err = "IndexError"]
            ELSE IF bm.avgdl.num = 0
            THEN [acc EXCEPT !.err = "ZeroDivisionError"]
            ELSE ScoreDocs(bm, tok, rest, candidate_ids,
                    [acc EXCEPT !.scores = AddScore(@, doc_id,
                        Contribution(
                            IdfGet(bm, tok),
                            bm.postings[tok][doc_id],
                            PyAt(bm.doc_len, doc_id), bm.avgdl))])

\* the outer loop of score_subset over the query tokens
RECURSIVE ScoreTokens(_, _, _, _)
ScoreTokens(bm, q_tokens, candidate_ids, acc) ==
    IF q_tokens = <<>> \/ acc.err /= "none" THEN acc
    ELSE LET tok == Head(q_tokens)
             po  == PostingsOf(bm, tok)
         IN IF po.err /= "none"
            THEN [acc EXCEPT !.err = po.err]
            ELSE ScoreTokens(bm, Tail(q_tokens), candidate_ids,
                    ScoreDocs(bm, tok, po.docs, candidate_ids, acc))

\* reverse=True left out: ascending scores
RECURSIVE InsertAscending(_, _)
InsertAscending(ranked, item) ==
    IF ranked = <<>> THEN <<item>>
    ELSE IF Head(ranked).score <= item.score
         THEN <<Head(ranked)>> \o InsertAscending(Tail(ranked), item)
         ELSE <<item>> \o ranked

RECURSIVE SortByScoreAsc(_)
SortByScoreAsc(items) ==
    IF items = <<>> THEN <<>>
    ELSE InsertAscending(SortByScoreAsc(SubSeq(items, 1, Len(items) - 1)),
                         items[Len(items)])

\* sorted(items, key=score, reverse=True): stable, equal scores keep their order
RECURSIVE InsertRanked(_, _)
InsertRanked(ranked, item) ==
    IF ranked = <<>> THEN <<item>>
    ELSE IF Head(ranked).score >= item.score
         THEN <<Head(ranked)>> \o InsertRanked(Tail(ranked), item)
         ELSE <<item>> \o ranked

RECURSIVE SortByScoreDesc(_)
SortByScoreDesc(items) ==
    IF items = <<>> THEN <<>>
    ELSE InsertRanked(SortByScoreDesc(SubSeq(items, 1, Len(items) - 1)),
                      items[Len(items)])

\* the slice left out: every ranked item is returned
PrefixAll(seq, k) == seq

\* ranked[:top_k] for top_k >= 0
Prefix(seq, k) == SubSeq(seq, 1, Min(k, Len(seq)))

\* score_subset(query, candidate_ids, top_k); candidate_ids is used for
\* membership only and is given as a set
ScoreSubsetOp(bm, query, candidate_ids, top_k) ==
    LET q_tokens == Split(normalize(query))
        acc      == ScoreTokens(bm, q_tokens, candidate_ids,
                                [err |-> "none", scores |-> <<>>])
    IN IF acc.err /= "none"
       THEN [err |-> acc.err, scores |-> acc.scores, ret |-> <<>>]
       ELSE [err |-> "none", scores |-> acc.scores,
             ret |-> Prefix(SortByScoreDesc(acc.scores), top_k)]

\* self.postings[tok] on the defaultdict without the membership test before
\* it: a term the corpus does not hold is inserted with an empty dict
PostingsAfterLookupDefault(bm, tok) ==
    IF tok \in DOMAIN bm.postings THEN bm.postings
    ELSE [t \in DOMAIN bm.postings \cup {tok} |->
             IF t = tok THEN <<>> ELSE bm.postings[t]]

\* self.postings after the lookups of one query token: "tok not in
\* self.postings" inserts nothing, and self.postings[tok] is only evaluated
\* for a key that is present
PostingsAfterLookup(bm, tok) == bm.postings

\* the preprocessor after score_subset has gone through the query tokens
RECURSIVE BM25AfterScoreSubset(_, _)
BM25AfterScoreSubset(bm, q_tokens) ==
    IF q_tokens = <<>> THEN bm
    ELSE BM25AfterScoreSubset(
             [bm EXCEPT !.postings = PostingsAfterLookup(bm, Head(q_tokens))],
             Tail(q_tokens))

\* ------------------------------------------------- LegalKnowledgeIndexer.query
\* index.search(q_emb, top_k) of an inner-product index over ntotal vectors:
\* the labels of the min(top_k, ntotal) nearest vectors, most similar first,
\* padded with -1 up to top_k labels.  Which vectors are nearest is decided
\* by the embedding model, so every ranking is possible.
Arrangements(n, m) ==
    {r \in [1..m -> 0..(n - 1)] : \A i, j \in 1..m : i /= j => r[i] /= r[j]}

SearchResults(ntotal, top_k) ==
    {r \o [i \in 1..(top_k - Len(r)) |-> -1] :
        r \in Arrangements(ntotal, Min(top_k, ntotal))}

\* query(text, top_k), given the labels I the search returned:
\* [(score, self.ids[idx]) for idx in I[0]]
QueryOp(sbv, I) ==
    IF \E i \in 1..Len(I) : ~PyInRange(sbv.ids, I[i])
    THEN [err |-> "IndexError", hits |-> <<>>]
    ELSE [err |-> "none", hits |-> [i \in 1..Len(I) |-> PyAt(sbv.ids, I[i])]]

\* ------------------------------------------------------- HybridRetrieval.run
\* [self.sb.ids.index(chunk_id) for _, chunk_id in sem_hits]
CandidateIntIds(sbv, sem_hits) ==
    [i \in 1..Len(sem_hits) |-> PyIndexOf(sbv.ids, sem_hits[i])]

\* while lines and lines[0].startswith("Section:"): lines.pop(0)
RECURSIVE PopSectionLines(_)
PopSectionLines(lines) ==
    IF lines /= <<>> /\ StartsWith(lines[1], SecPrefix)
    THEN PopSectionLines(Tail(lines)) ELSE lines

CleanChunk(chunk) == Strip(Join(PopSectionLines(SplitLines(chunk)), <<NL>>))

ResultChunks(bm, bm25_hits) ==
    [i \in 1..Len(bm25_hits) |-> CleanChunk(PyAt(bm.raw_chunks, bm25_hits[i].doc_id))]

\* what a call leaves behind when nothing has been called yet
NoCall ==
    [op |-> "none", query |-> <<>>, top_k_sem |-> 0, top_k |-> 0,
     I |-> <<>>, sem_hits |-> <<>>, candidate_ids |-> <<>>, scores |-> <<>>,
     bm25_hits |-> <<>>, result_chunks |-> <<>>, outcome |-> "none"]

\* run(top_k_sem, top_k_bm25) with self.query = q, the search returning I;
\* strict says whether the search rejects top_k = 0
RunOp(sbv, bm, q, top_k_sem, top_k_bm25, I, strict) ==
    LET base == [NoCall EXCEPT !.op = "run", !.query = q,
                               !.top_k_sem = top_k_sem, !.top_k = top_k_bm25]
        qr   == QueryOp(sbv, I)
        cand == CandidateIntIds(sbv, qr.hits)
        ss   == ScoreSubsetOp(bm, q, Range(cand), top_k_bm25)
    IN IF top_k_sem = 0 /\ strict
       THEN [base EXCEPT !.outcome = "AssertionError"]
       ELSE IF qr.err /= "none"
       THEN [base EXCEPT !.I = I, !.outcome = qr.err]
       ELSE IF ss.err /= "none"
       THEN [base EXCEPT !.I = I, !.sem_hits = qr.hits, !.candidate_ids = cand,
                         !.scores = ss.scores, !.outcome = ss.err]
       ELSE [base EXCEPT !.I = I, !.sem_hits = qr.hits, !.candidate_ids = cand,
                         !.scores = ss.scores, !.bm25_hits = ss.ret,
                         !.result_chunks = ResultChunks(bm, ss.ret),
                         !.outcome = "returned"]

\* str.split(sep) with a separator given: the pieces between the leftmost
\* non-overlapping occurrences of sep; "" gives [""]
RECURSIVE PySplit(_, _)
PySplit(s, sep) ==
    LET at(i) == SubSeq(s, i, i + Len(sep) - 1) = sep
        found == {i \in 1..(Len(s) - Len(sep) + 1) : at(i)}
    IN IF found = {} THEN <<s>>
       ELSE LET i == CHOOSE i \in found : \A j \in found : i <= j
            IN <<SubSeq(s, 1, i - 1)>>
               \o PySplit(SubSeq(s, i + Len(sep), Len(s)), sep)

\* RetrievalAgent.on_user_message, after run: "\n\n".join(chunks)
MessageContent(chunks) == Join(chunks, <<NL, NL>>)

\* a split that leaves out the empty pieces
RetrieveSplitDropEmpty(content) ==
    SelectSeq(PySplit(content, <<NL, NL>>), LAMBDA piece : piece /= <<>>)

\* RetrievalAgent.retrieve, after on_user_message: resp["content"].split("\n\n")
RetrieveSplit(content) == PySplit(content, <<NL, NL>>)

\* ------------------------------------------------------------------ state
VARIABLES
    json_dir,   \* the corpus directory: its files in sorted order
    indexer,    \* the LegalKnowledgeIndexer of the build script
    disk,       \* the persisted artifacts: index, chunk texts, chunk ids
    sb,         \* HybridRetrieval.sb, the indexer the retriever loads
    bm25,       \* HybridRetrieval.bm25
    query,      \* HybridRetrieval.query
    phase,      \* where the program is: start, flattened, built, ...
    call,       \* the call in progress or just returned
    pc,         \* per query thread: its position in on_user_message / run
    msg,        \* per query thread: message.content
    local,      \* per query thread: sem_hits, bm25_hits and the result
    worker,     \* the GenerateWorker thread and the signals it has emitted
    parser,     \* ConvertToJson.parse_document: its locals, line by line
    gui         \* SystemGUI: the confirmation flow of the query panel

vars == <<json_dir, indexer, disk, sb, bm25, query, phase, call, pc, msg, local,
          worker, parser, gui>>

Threads == {1, 2}

\* a LegalKnowledgeIndexer after __init__; src records, for every id, the
\* file and entry its chunk was flattened from, and dir the directory
\* listing load_and_flatten read
LKINew ==
    [file_chunks |-> <<>>, all_chunks |-> <<>>, ids |-> <<>>, src |-> <<>>,
     index |-> "None", dir |-> "None",
     index_path |-> FALSE, chunks_path |-> FALSE, id_meta_path |-> FALSE]

\* LegalKnowledgeIndexer(index_path=..., chunks_path=..., id_meta_path=...):
\* a path is either the file the application uses (TRUE) or None (FALSE)
PathChoices == [index_path : BOOLEAN, chunks_path : BOOLEAN,
                id_meta_path : BOOLEAN]

AllPaths == [index_path |-> TRUE, chunks_path |-> TRUE, id_meta_path |-> TRUE]

LKIWith(paths) ==
    [LKINew EXCEPT !.index_path = paths.index_path,
                   !.chunks_path = paths.chunks_path,
                   !.id_meta_path = paths.id_meta_path]

\* ---------------------------------------------- LegalKnowledgeIndexer.embed
\* A norm is kept as its distance from 1.0 in units of 1e-7.
Atol == 10    \* atol=1e-6
Rtol == 100   \* the default rtol=1e-5 of np.allclose, times |1.0|

\* What model.encode can give for a batch of chunks, told by the embedding
\* of the batch that is furthest from a unit vector: its norm, and whether it
\* has a NaN or an infinite component.
ExactEmbedding == [dev |-> 0, bad |-> "none"]

EmbedPool ==
    { ExactEmbedding,
      [dev |-> 50,  bad |-> "none"],
      [dev |-> 200, bad |-> "none"],
      [dev |-> 0,   bad |-> "nan"],
      [dev |-> 0,   bad |-> "inf"] }

\* np.allclose(norms, 1.0, atol=1e-6): |norm - 1.0| <= atol + rtol * |1.0|,
\* false for a norm that is NaN or infinite
AllClose(e) == e.bad = "none" /\ e.dev <= Atol + Rtol

\* embed: the two checks after model.encode
EmbedOp(e) ==
    IF ~AllClose(e) THEN "ValueError"
    ELSE IF e.bad /= "none" THEN "ValueError"
    ELSE "none"

\* build_index on the indexer ind with the storage dk, the batch embedded as
\* e; encodes_empty says whether the library embeds an empty list into a 2D
\* array.  The index is kept as the chunks whose vectors it stores.
LKIBuildIndex(ind, dk, e, encodes_empty) ==
    LET g        == LKIGather(ind.file_chunks)
        chunks   == ind.all_chunks \o [i \in 1..Len(g) |-> g[i].chunk]
        idsNew   == ind.ids \o [i \in 1..Len(g) |-> g[i].id]
        srcNew   == ind.src \o [i \in 1..Len(g) |-> g[i].src]
        gathered == [ind EXCEPT !.all_chunks = chunks, !.ids = idsNew,
                                !.src = srcNew]
        err      == IF chunks = <<>>
                    THEN (IF encodes_empty THEN "none" ELSE "AssertionError")
                    ELSE EmbedOp(e)
    IN IF err /= "none"
       THEN [ind |-> gathered, disk |-> dk, err |-> err]
       ELSE [ind  |-> [gathered EXCEPT !.index = chunks],
             disk |-> [index  |-> IF ind.index_path THEN chunks ELSE dk.index,
                       chunks |-> IF ind.chunks_path THEN chunks ELSE dk.chunks,
                       ids    |-> IF ind.id_meta_path THEN idsNew ELSE dk.ids,
                       src    |-> IF ind.id_meta_path THEN srcNew ELSE dk.src],
             err  |-> "none"]

\* load reading the index file only, whatever paths are configured
LKILoadIndexOnly(ind, dk) ==
    IF ind.index_path /\ dk.index = "None"
    THEN [ind |-> ind, err |-> "RuntimeError"]
    ELSE [ind |-> IF ind.index_path THEN [ind EXCEPT !.index = dk.index]
                                    ELSE ind,
          err |-> "none"]

\* load on the indexer ind from the storage dk: every configured artifact is
\* read, in the order index, chunks, ids; reading a file that was never
\* written raises
LKILoad(ind, dk) ==
    IF ind.index_path /\ dk.index = "None"
    THEN [ind |-> ind, err |-> "RuntimeError"]
    ELSE LET a == IF ind.index_path THEN [ind EXCEPT !.index = dk.index]
                                    ELSE ind
         IN IF ind.chunks_path /\ dk.chunks = "None"
            THEN [ind |-> a, err |-> "FileNotFoundError"]
            ELSE LET c == IF ind.chunks_path
                          THEN [a EXCEPT !.all_chunks = dk.chunks] ELSE a
                 IN IF ind.id_meta_path /\ dk.ids = "None"
                    THEN [ind |-> c, err |-> "FileNotFoundError"]
                    ELSE [ind |-> IF ind.id_meta_path
                                  THEN [c EXCEPT !.ids = dk.ids, !.src = dk.src]
                                  ELSE c,
                          err |-> "none"]

NoDisk == [index |-> "None", chunks |-> "None", ids |-> "None", src |-> "None"]

NoLocal == [sem_q |-> <<>>, bm25_q |-> <<>>, candidate_ids |-> <<>>,
            bm25_hits |-> <<>>, result |-> <<>>, outcome |-> "none"]

\* ------------------------------------------------------ GenerateWorker
\* max_attempts = 3
MaxAttempts == 3

\* the texts the content agent may produce
Outputs == { <<>>, <<"pay">>, <<".", "law">>,
             <<"law", ".">>, <<"pay", ".", SP>>, <<"tax", ".", NL>> }

\* the loop never finds its output complete
NeverEndsWithPeriod(output) == FALSE

\* output.strip().endswith(".")
EndsWithPeriod(output) ==
    LET s == Strip(output) IN s /= <<>> /\ s[Len(s)] = "."

\* a GenerateWorker after __init__: calls are the generations the content
\* agent has been asked for, signals the emissions in order, delivered the
\* number of them the GUI thread has handled, status_label the spinner text
WorkerNew ==
    [pc |-> "new", attempt |-> 0, output |-> <<>>, calls |-> <<>>,
     signals |-> <<>>, delivered |-> 0, status_label |-> "Generating Response"]

\* ------------------------------------------------- ConvertToJson.parse_document
\* the locals of parse_document before its loop; list_stack is None or the
\* lists on the way down to the list the next item goes to
\* list_stack[k] is always the "list" of the last item of list_stack[k-1],
\* and list_stack[0] the "list" of the last block of a group, so the stack
\* is kept as its owner (0: current_blocks, g >= 1: the Content of data[g],
\* the same list object after flush_group) and the depth of its top; NoStack
\* stands for None.  read holds the lines the loop has consumed.
NoStack == [owner |-> -1, depth |-> 0]

ParserNew ==
    [current_section |-> "None", current_subsection |-> "None",
     current_blocks |-> <<>>, list_stack |-> NoStack, data |-> <<>>,
     read |-> <<>>, err |-> "none", pc |-> "lines"]

\* the text of the <ITEM> lines of level lvl
LevelText(lvl) == [i \in 1..(lvl + 1) |-> "s"]

\* the lines of the converted document, by what the patterns of
\* parse_document make of them: blank, a section heading "1. pay", a
\* subsection heading "1.1 law" or "1.1 law: tax", an <ITEM> line, other text
DocLines ==
    { [kind |-> "blank"],
      [kind |-> "section", title |-> <<"pay">>],
      [kind |-> "subsection", title |-> <<"law">>, extra |-> <<>>],
      [kind |-> "subsection", title |-> <<"law">>, extra |-> <<"tax">>],
      [kind |-> "text", text |-> <<"pay", SP, "law">>] }
    \cup {[kind |-> "item", lvl |-> l, txt |-> LevelText(l)] : l \in 0..MaxLevel}

\* flush_group: list_stack is not among its nonlocal names, so its last
\* statement binds a local and the stack of parse_document stays as it is,
\* now pointing into the group appended to data
FlushGroup(ps) ==
    IF ps.current_blocks = <<>> THEN ps
    ELSE [ps EXCEPT
             !.data = Append(@, [Section    |-> ps.current_section,
                                 Subsection |-> ps.current_subsection,
                                 Content    |-> ps.current_blocks,
                                 topic      |-> <<"topic">>]),
             !.current_blocks = <<>>,
             !.list_stack = IF @ /= NoStack /\ @.owner = 0
                            THEN [@ EXCEPT !.owner = Len(ps.data) + 1]
                            ELSE @]

\* the list at depth d below lst, along the last items
RECURSIVE ListAtDepth(_, _)
ListAtDepth(lst, d) ==
    IF d = 0 THEN lst ELSE ListAtDepth(lst[Len(lst)].list, d - 1)

\* lst with item appended to the list at depth d along the last items
RECURSIVE AppendAtDepth(_, _, _)
AppendAtDepth(lst, d, item) ==
    IF d = 0 THEN Append(lst, item)
    ELSE [lst EXCEPT ![Len(lst)].list = AppendAtDepth(@, d - 1, item)]

\* the blocks the stack points into
OwnerBlocks(ps) ==
    IF ps.list_stack.owner = 0 THEN ps.current_blocks
    ELSE ps.data[ps.list_stack.owner].Content

\* the body of the try statement for an <ITEM> line
ParseItem(ps, lvl, txt) ==
    LET started == IF ps.list_stack /= NoStack THEN ps
                   ELSE [ps EXCEPT
                            !.current_blocks =
                                IF @ = <<>> THEN <<[text |-> <<>>, list |-> <<>>]>>
                                ELSE @,
                            !.list_stack = [owner |-> 0, depth |-> 0]]
        blocks  == OwnerBlocks(started)
        top     == blocks[Len(blocks)].list
        popped  == Min(started.list_stack.depth, lvl)
        deeper  == lvl > popped
        depth   == IF deeper THEN popped + 1 ELSE popped
        item    == [text |-> <<Bullet, SP>> \o txt, list |-> <<>>]
        filled  == [blocks EXCEPT
                       ![Len(blocks)].list = AppendAtDepth(@, depth, item)]
    IN IF deeper /\ ListAtDepth(top, popped) = <<>>
       THEN [started EXCEPT !.list_stack.depth = popped,
                            !.err = "IndexError"]
       ELSE IF started.list_stack.owner = 0
            THEN [started EXCEPT !.current_blocks = filled,
                                 !.list_stack.depth = depth]
            ELSE [started EXCEPT
                     !.data[started.list_stack.owner].Content = filled,
                     !.list_stack.depth = depth]

\* one pass of the loop over the lines
ParseStep(ps, ln) ==
    LET rd == [ps EXCEPT !.read = Append(@, ln)] IN
    CASE ln.kind = "blank" -> rd
      [] ln.kind = "section" ->
            [FlushGroup(rd) EXCEPT !.current_section = ln.title,
                                   !.current_subsection = "None"]
      [] ln.kind = "subsection" ->
            [FlushGroup(rd) EXCEPT
                !.current_subsection = ln.title,
                !.current_blocks =
                    IF ln.extra /= <<>>
                    THEN Append(@, [text |-> ln.extra, list |-> <<>>]) ELSE @]
      [] ln.kind = "item" -> ParseItem(rd, ln.lvl, ln.txt)
      [] ln.kind = "text" ->
            [rd EXCEPT !.list_stack = NoStack,
                       !.current_blocks =
                           Append(@, [text |-> ln.text, list |-> <<>>])]

\* ------------------------------------------------------------- SystemGUI
\* SystemGUI after __init__ and _setup_ui.  current_chunk_idx has no value
\* before the first query (-1 here).  extraction_display is kept as its
\* blocks, one per query, and last_block_pos as the number of blocks in
\* front of the block the next rejection replaces; shown_idx is the index
\* of the chunk the last rendering put on the screen.
GuiNew ==
    [current_query |-> <<>>, chunks |-> <<>>, current_chunk_idx |-> -1,
     last_block_pos |-> 0, waiting_for_retry |-> FALSE,
     extraction_display |-> <<>>, confirm_widget |-> "hidden",
     confirmed_results |-> <<>>, shown_idx |-> -1, queries |-> 0]

\* the texts typed into the query box
GuiQueries == { <<SP>>, <<"pay">>, <<SP, "law">> }

\* the chunks a run may return to the agent
ChunkPool == { <<"tax">>, <<"law", NL, "pay">>, <<"pay", NL, NL, "law">> }

\* what retrieve hands to handle_query for the chunk lists run may return
Retrieved(run_chunks) == RetrieveSplit(MessageContent(run_chunks))

\* body = raw.split("\n", 1)[1].strip() if "\n" in raw else raw
Body(raw) ==
    IF FirstNL(raw) = 0 THEN raw
    ELSE Strip(SubSeq(raw, FirstNL(raw) + 1, Len(raw)))

\* full[:last_block_pos]
DisplayPrefix(g) ==
    SubSeq(g.extraction_display, 1,
           Min(g.last_block_pos, Len(g.extraction_display)))

\* handle_query with text in the query box, retrieve returning the list
\* result or raising (result = "raise")
HandleQueryOp(g, text, raises, result) ==
    LET q      == Strip(text)
        asked  == [g EXCEPT !.current_query = q, !.queries = @ + 1]
        got    == [asked EXCEPT !.chunks = result, !.current_chunk_idx = 0]
        block  == [query |-> q, body |-> Body(result[1])]
        shown  == IF g.waiting_for_retry
                  THEN [got EXCEPT
                           !.extraction_display = Append(DisplayPrefix(g), block),
                           !.waiting_for_retry = FALSE]
                  ELSE [got EXCEPT
                           !.extraction_display = Append(@, block)]
    IN IF q = <<>> THEN g
       ELSE IF raises THEN asked
       ELSE IF result = <<>> THEN got
       ELSE [shown EXCEPT
                !.last_block_pos = Len(shown.extraction_display) - 1,
                !.confirm_widget = "shown",
                !.shown_idx = 0]

\* confirm_yes
ConfirmYesOp(g) ==
    [g EXCEPT
        !.confirmed_results =
            Append(@, [query |-> g.current_query,
                       chunk |-> g.chunks[g.current_chunk_idx + 1]]),
        !.confirm_widget = "hidden"]

\* confirm_no
ConfirmNoOp(g) ==
    LET idx    == g.current_chunk_idx + 1
        prefix == DisplayPrefix(g)
    IN IF idx < Len(g.chunks)
       THEN [g EXCEPT
                !.current_chunk_idx = idx,
                !.extraction_display =
                    Append(prefix, [query |-> g.current_query,
                                    body  |-> Body(g.chunks[idx + 1])]),
                !.last_block_pos = Len(prefix),
                !.confirm_widget = "shown",
                !.shown_idx = idx]
       ELSE [g EXCEPT !.current_chunk_idx = idx,
                      !.confirm_widget = "hidden",
                      !.waiting_for_retry = TRUE]

\* clear_results
ClearResultsOp(g) ==
    [g EXCEPT !.extraction_display = <<>>, !.confirmed_results = <<>>]

Init ==
    /\ json_dir \in Corpora
    /\ indexer = LKIWith(AllPaths)
    /\ disk = NoDisk
    /\ sb = LKINew
    /\ bm25 = BM25New
    /\ query = "None"
    /\ phase = "start"
    /\ call = NoCall
    /\ pc = [t \in Threads |-> "idle"]
    /\ msg = [t \in Threads |-> <<>>]
    /\ local = [t \in Threads |-> NoLocal]
    /\ worker = WorkerNew
    /\ parser = ParserNew
    /\ gui = GuiNew

\* ---------------------------------------------------------------- actions
\* LegalKnowledgeIndexer.load_and_flatten
LoadAndFlatten ==
    /\ phase \in {"start", "configured"}
    /\ indexer' = [indexer EXCEPT !.file_chunks = LKILoadAndFlatten(json_dir),
                                  !.dir = json_dir]
    /\ phase' = "flattened"
    /\ UNCHANGED <<json_dir, disk, sb, bm25, query, call, pc, msg, local,
                    worker, parser, gui>>

\* LegalKnowledgeIndexer.build_index, for every embedding the model can
\* give; with no chunk to embed there is no embedding
BuildIndex ==
    /\ phase = "flattened"
    /\ \E e \in EmbedPool, encodes_empty \in BOOLEAN :
          LET r == LKIBuildIndex(indexer, disk, e, encodes_empty) IN
          /\ r.ind.all_chunks = <<>> => e = ExactEmbedding
          /\ r.ind.all_chunks /= <<>> => encodes_empty
          /\ indexer' = r.ind
          /\ disk' = r.disk
          /\ call' = [op |-> "build_index", emb |-> e,
                      outcome |-> IF r.err = "none" THEN "returned" ELSE r.err]
          /\ phase' = IF r.err = "none" THEN "built" ELSE "build_failed"
    /\ UNCHANGED <<json_dir, sb, bm25, query, pc, msg, local,
                    worker, parser, gui>>

\* The corpus directory changes between the index build and the start of
\* the application: its last file is removed.
CorpusEdit ==
    /\ phase = "built"
    /\ json_dir /= <<>>
    /\ json_dir' = SubSeq(json_dir, 1, Len(json_dir) - 1)
    /\ UNCHANGED <<indexer, disk, sb, bm25, query, phase, call, pc, msg, local,
                    worker, parser, gui>>

\* HybridRetrieval.__init__: sb.load() and bm25.load_and_prepare()
HybridInit ==
    /\ phase = "built"
    /\ sb' = [LKILoad(LKIWith(AllPaths), disk).ind EXCEPT !.dir = indexer.dir]
    /\ bm25' = BM25LoadAndPrepare(BM25New, json_dir)
    /\ phase' = "ready"
    /\ call' = NoCall
    /\ UNCHANGED <<json_dir, indexer, disk, query, pc, msg, local,
                    worker, parser, gui>>

\* HybridRetrieval.run on a query: self.query = q; run(top_k_sem, top_k_bm25)
Run ==
    /\ phase = "ready"
    /\ \E q \in Queries, n \in 0..MaxTopK, top_k_bm25 \in 0..MaxTopK,
          strict \in BOOLEAN :
          LET top_k_sem == MaxTopK - n IN
          /\ top_k_sem > 0 => strict
          /\ \E I \in SearchResults(Len(sb.index), top_k_sem) :
                /\ call' = RunOp(sb, bm25, q, top_k_sem, top_k_bm25, I, strict)
                /\ bm25' = IF (top_k_sem = 0 /\ strict)
                              \/ QueryOp(sb, I).err /= "none"
                           THEN bm25
                           ELSE BM25AfterScoreSubset(bm25, Split(normalize(q)))
          /\ query' = q
    /\ phase' = "called"
    /\ UNCHANGED <<json_dir, indexer, disk, sb, pc, msg, local,
                    worker, parser, gui>>

\* BM25Preprocessor(json_dir).load_and_prepare() on a new preprocessor
LoadAndPrepare ==
    /\ phase = "start"
    /\ bm25' = BM25LoadAndPrepare(bm25, json_dir)
    /\ phase' = "ready"
    /\ UNCHANGED <<json_dir, indexer, disk, sb, query, call, pc, msg, local,
                    worker, parser, gui>>

\* BM25Preprocessor.score_subset called on any candidate set
ScoreSubset ==
    /\ phase = "ready"
    /\ \E q \in Queries, top_k \in 0..MaxTopK,
          candidate_ids \in SUBSET (-1..bm25.N) :
          LET ss == ScoreSubsetOp(bm25, q, candidate_ids, top_k)
          IN /\ call' = [NoCall EXCEPT
                    !.op = "score_subset", !.query = q, !.top_k = top_k,
                    !.candidate_ids = SortedSeq(candidate_ids),
                    !.scores = ss.scores, !.bm25_hits = ss.ret,
                    !.outcome = IF ss.err = "none" THEN "returned" ELSE ss.err]
             /\ bm25' = BM25AfterScoreSubset(bm25, Split(normalize(q)))
    /\ phase' = "called"
    /\ UNCHANGED <<json_dir, indexer, disk, sb, query, pc, msg, local,
                    worker, parser, gui>>

\* the caller takes the result; the retriever is ready for the next call
Return ==
    /\ phase = "called"
    /\ phase' = "ready"
    /\ call' = NoCall
    /\ UNCHANGED <<json_dir, indexer, disk, sb, bm25, query, pc, msg, local,
                    worker, parser, gui>>

\* ------------------------------------- RetrievalAgent.on_user_message
\* the arguments on_user_message passes to run
TopKSem  == 5
TopKBm25 == 3

\* self.retriever.query = message.content
SetQuery(t) ==
    /\ phase = "ready"
    /\ pc[t] = "idle"
    /\ \E m \in Queries : /\ msg' = [msg EXCEPT ![t] = m]
                          /\ query' = m
    /\ pc' = [pc EXCEPT ![t] = "run"]
    /\ UNCHANGED <<json_dir, indexer, disk, sb, bm25, phase, call, local,
                    worker, parser, gui>>

\* run, its first two statements: sem_hits = self.sb.query(self.query, ...)
\* and the candidate ids
SemQuery(t) ==
    /\ pc[t] = "run"
    /\ \E I \in SearchResults(Len(sb.index), TopKSem) :
          LET qr == QueryOp(sb, I)
          IN IF qr.err /= "none"
             THEN /\ local' = [local EXCEPT ![t].sem_q = query,
                                            ![t].outcome = qr.err]
                  /\ pc' = [pc EXCEPT ![t] = "done"]
             ELSE /\ local' = [local EXCEPT ![t].sem_q = query,
                       ![t].candidate_ids = CandidateIntIds(sb, qr.hits)]
                  /\ pc' = [pc EXCEPT ![t] = "score"]
    /\ UNCHANGED <<json_dir, indexer, disk, sb, bm25, query, phase, call, msg,
                    worker, parser, gui>>

\* run, the rest: score_subset(self.query, ...), the cleaning of the chunks
\* (which reads nothing but the hits) and the return
ScoreAndReturn(t) ==
    /\ pc[t] = "score"
    /\ LET ss == ScoreSubsetOp(bm25, query, Range(local[t].candidate_ids),
                               TopKBm25)
       IN local' = [local EXCEPT
              ![t].bm25_q = query,
              ![t].bm25_hits = ss.ret,
              ![t].result = IF ss.err = "none"
                            THEN ResultChunks(bm25, ss.ret) ELSE <<>>,
              ![t].outcome = IF ss.err = "none" THEN "returned" ELSE ss.err]
    /\ bm25' = BM25AfterScoreSubset(bm25, Split(normalize(query)))
    /\ pc' = [pc EXCEPT ![t] = "done"]
    /\ UNCHANGED <<json_dir, indexer, disk, sb, query, phase, call, msg,
                    worker, parser, gui>>

Next ==
    \/ LoadAndFlatten
    \/ BuildIndex
    \/ CorpusEdit
    \/ HybridInit
    \/ Run
    \/ Return

Spec == Init /\ [][Next]_vars

\* A BM25Preprocessor used on its own: built over the corpus, then asked to
\* score any candidate set.
NextScore ==
    \/ LoadAndPrepare
    \/ ScoreSubset
    \/ Return

SpecScore == Init /\ [][NextScore]_vars

\* Two query threads share one retriever built over an unchanged corpus.
NextConc ==
    \/ LoadAndFlatten
    \/ BuildIndex
    \/ HybridInit
    \/ \E t \in Threads : SetQuery(t)
    \/ \E t \in Threads : SemQuery(t)
    \/ \E t \in Threads : ScoreAndReturn(t)

SpecConc == Init /\ [][NextConc]_vars

\* load_and_prepare called once more on the same preprocessor, the corpus
\* unchanged
LoadAndPrepareAgain ==
    /\ phase = "ready"
    /\ bm25' = BM25LoadAndPrepare(bm25, json_dir)
    /\ phase' = "reloaded"
    /\ UNCHANGED <<json_dir, indexer, disk, sb, query, call, pc, msg, local,
                    worker, parser, gui>>

NextReload ==
    \/ LoadAndPrepare
    \/ LoadAndPrepareAgain

SpecReload == Init /\ [][NextReload]_vars

\* The BM25 term of score_subset's inner loop on its own: the contribution
\* of a term of the index to a chunk of the index, for a term frequency freq.
Contribute ==
    /\ phase = "ready"
    /\ \E t \in DOMAIN bm25.idf, d \in 1..Len(bm25.doc_len), freq \in 1..MaxFreq :
          call' = [op |-> "contribution", idf |-> bm25.idf[t], freq |-> freq,
                   dl |-> bm25.doc_len[d], avgdl |-> bm25.avgdl,
                   value |-> Contribution(bm25.idf[t], freq, bm25.doc_len[d],
                                          bm25.avgdl),
                   outcome |-> "returned"]
    /\ phase' = "called"
    /\ UNCHANGED <<json_dir, indexer, disk, sb, bm25, query, pc, msg, local,
                    worker, parser, gui>>

NextContribution ==
    \/ LoadAndPrepare
    \/ Contribute
    \/ Return

SpecContribution == Init /\ [][NextContribution]_vars

\* LegalKnowledgeIndexer(...) constructed with any combination of the three
\* artifact paths
Configure ==
    /\ phase = "start"
    /\ \E paths \in PathChoices : indexer' = LKIWith(paths)
    /\ phase' = "configured"
    /\ UNCHANGED <<json_dir, disk, sb, bm25, query, call, pc, msg, local,
                    worker, parser, gui>>

\* build_index called once more on the indexer that has built its index
BuildIndexAgain ==
    /\ phase = "built"
    /\ \E e \in EmbedPool, encodes_empty \in BOOLEAN :
          LET r == LKIBuildIndex(indexer, disk, e, encodes_empty) IN
          /\ r.ind.all_chunks = <<>> => e = ExactEmbedding
          /\ r.ind.all_chunks /= <<>> => encodes_empty
          /\ indexer' = r.ind
          /\ disk' = r.disk
          /\ call' = [op |-> "build_index", emb |-> e,
                      outcome |-> IF r.err = "none" THEN "returned" ELSE r.err]
          /\ phase' = IF r.err = "none" THEN "rebuilt" ELSE "build_failed"
    /\ UNCHANGED <<json_dir, sb, bm25, query, pc, msg, local,
                    worker, parser, gui>>

\* load on a new indexer constructed with any combination of the paths,
\* over what the builds have left in storage
Load ==
    /\ phase \in {"built", "rebuilt"}
    /\ \E paths \in PathChoices :
          LET r == LKILoad(LKIWith(paths), disk) IN
          /\ sb' = r.ind
          /\ call' = [op |-> "load",
                      outcome |-> IF r.err = "none" THEN "returned" ELSE r.err]
          /\ phase' = IF r.err = "none" THEN "loaded" ELSE "load_failed"
    /\ UNCHANGED <<json_dir, indexer, disk, bm25, query, pc, msg, local,
                    worker, parser, gui>>

NextIndexer ==
    \/ Configure
    \/ LoadAndFlatten
    \/ BuildIndex
    \/ BuildIndexAgain
    \/ Load

SpecIndexer == Init /\ [][NextIndexer]_vars

\* One file of the corpus directory is malformed: it is not JSON, or one of
\* its entries is not an object.
CorruptFile ==
    /\ phase = "start"
    /\ \E i \in 1..Len(json_dir) :
          \/ json_dir' = [json_dir EXCEPT ![i].entries = NotJson]
          \/ \E j \in 1..Len(json_dir[i].entries) :
                json_dir' = [json_dir EXCEPT ![i].entries[j] = BadEntry]
    /\ phase' = "corrupted"
    /\ UNCHANGED <<indexer, disk, sb, bm25, query, call, pc, msg, local,
                    worker, parser, gui>>

\* BM25Preprocessor(json_dir).load_and_prepare() over that directory
LoadAndPrepareCorrupted ==
    /\ phase = "corrupted"
    /\ LET r == BM25LoadAndPrepareChecked(bm25, json_dir) IN
          /\ bm25' = r.bm
          /\ call' = [op |-> "load_and_prepare",
                      outcome |-> IF r.err = "none" THEN "returned" ELSE r.err]
          /\ phase' = IF r.err = "none" THEN "prepared" ELSE "prepare_failed"
    /\ UNCHANGED <<json_dir, indexer, disk, sb, query, pc, msg, local,
                    worker, parser, gui>>

\* LegalKnowledgeIndexer.load_and_flatten over that directory
LoadAndFlattenCorrupted ==
    /\ phase = "corrupted"
    /\ LET r == LKILoadAndFlattenChecked(json_dir) IN
          /\ indexer' = [indexer EXCEPT !.file_chunks = r.file_chunks,
                                        !.dir = json_dir]
          /\ call' = [op |-> "load_and_flatten",
                      outcome |-> IF r.err = "none" THEN "returned" ELSE r.err]
          /\ phase' = IF r.err = "none" THEN "flattened_part"
                                        ELSE "flatten_failed"
    /\ UNCHANGED <<json_dir, disk, sb, bm25, query, pc, msg, local,
                    worker, parser, gui>>

NextMalformed ==
    \/ CorruptFile
    \/ LoadAndPrepareCorrupted
    \/ LoadAndFlattenCorrupted

SpecMalformed == Init /\ [][NextMalformed]_vars

\* flatten_content on its own: an entry is given, and both builders flatten
\* it.  lines is the list process_list has filled when the loop over the
\* blocks ends.
InitFlatten ==
    /\ json_dir = <<>>
    /\ indexer = LKINew
    /\ disk = NoDisk
    /\ sb = LKINew
    /\ bm25 = BM25New
    /\ query = "None"
    /\ phase = "entry"
    /\ call \in {[op |-> "entry", entry |-> e] : e \in FlattenEntries}
    /\ pc = [t \in Threads |-> "idle"]
    /\ msg = [t \in Threads |-> <<>>]
    /\ local = [t \in Threads |-> NoLocal]
    /\ worker = WorkerNew
    /\ parser = ParserNew
    /\ gui = GuiNew

FlattenContent ==
    /\ phase = "entry"
    /\ call' = [op        |-> "flatten_content",
                entry     |-> call.entry,
                bm25      |-> [lines |-> BM25FlattenLines(call.entry),
                               chunk |-> BM25Flatten(call.entry)],
                sb        |-> [lines |-> LKIBlocks(call.entry.Content),
                               chunk |-> LKIFlatten(call.entry)]]
    /\ phase' = "flattened_entry"
    /\ UNCHANGED <<json_dir, indexer, disk, sb, bm25, query, pc, msg, local,
                    worker, parser, gui>>

NextFlatten ==
    \/ FlattenContent

SpecFlatten == InitFlatten /\ [][NextFlatten]_vars

\* The application with no corpus at hand: only its other parts act.
InitIdle ==
    /\ json_dir = <<>>
    /\ indexer = LKINew
    /\ disk = NoDisk
    /\ sb = LKINew
    /\ bm25 = BM25New
    /\ query = "None"
    /\ phase = "idle"
    /\ call = NoCall
    /\ pc = [t \in Threads |-> "idle"]
    /\ msg = [t \in Threads |-> <<>>]
    /\ local = [t \in Threads |-> NoLocal]
    /\ worker = WorkerNew
    /\ parser = ParserNew
    /\ gui = GuiNew

\* GenerateWorker.run up to its loop: set_generation_params, max_attempts,
\* output = "" and the first value of attempt
WorkerStart ==
    /\ worker.pc = "new"
    /\ worker' = [worker EXCEPT !.pc = "loop", !.attempt = 1, !.output = <<>>]
    /\ UNCHANGED <<json_dir, indexer, disk, sb, bm25, query, phase, call, pc,
                   msg, local, parser, gui>>

\* one pass of the retry loop: the content agent generates any output; a
\* complete output breaks the loop, an incomplete one emits progress and
\* goes on to the next value of range(1, max_attempts + 1), if any
WorkerAttempt ==
    /\ worker.pc = "loop"
    /\ \E out \in Outputs :
          LET called == [worker EXCEPT
                            !.output = out,
                            !.calls = Append(@, [attempt |-> worker.attempt,
                                                 output  |-> out])]
          IN worker' =
                 IF EndsWithPeriod(out)
                 THEN [called EXCEPT !.pc = "finish"]
                 ELSE [called EXCEPT
                          !.signals = Append(@, [name |-> "progress",
                                                 args |-> <<worker.attempt + 1,
                                                            MaxAttempts>>]),
                          !.attempt = IF worker.attempt < MaxAttempts
                                      THEN worker.attempt + 1 ELSE @,
                          !.pc = IF worker.attempt < MaxAttempts
                                 THEN "loop" ELSE "finish"]
    /\ UNCHANGED <<json_dir, indexer, disk, sb, bm25, query, phase, call, pc,
                   msg, local, parser, gui>>

\* self.finished.emit(output)
WorkerFinish ==
    /\ worker.pc = "finish"
    /\ worker' = [worker EXCEPT
                      !.signals = Append(@, [name |-> "finished",
                                             args |-> <<worker.output>>]),
                      !.pc = "done"]
    /\ UNCHANGED <<json_dir, indexer, disk, sb, bm25, query, phase, call, pc,
                   msg, local, parser, gui>>

\* the GUI thread handles the next queued signal: progress goes to the
\* lambda that restarts the spinner with "Retrying (a/m)", finished to
\* generate_finished, which stops the spinner
DeliverSignal ==
    /\ worker.delivered < Len(worker.signals)
    /\ LET s == worker.signals[worker.delivered + 1]
       IN worker' = [worker EXCEPT
              !.delivered = @ + 1,
              !.status_label = IF s.name = "progress" THEN s.args
                               ELSE "hidden"]
    /\ UNCHANGED <<json_dir, indexer, disk, sb, bm25, query, phase, call, pc,
                   msg, local, parser, gui>>

NextWorker ==
    \/ WorkerStart
    \/ WorkerAttempt
    \/ WorkerFinish
    \/ DeliverSignal

SpecWorker == InitIdle /\ [][NextWorker]_vars

\* parse_document reads the next line of its text
ParseLine ==
    /\ parser.pc = "lines"
    /\ Len(parser.read) < MaxLines
    /\ \E ln \in DocLines :
          LET ps == ParseStep(parser, ln)
          IN parser' = IF ps.err = "none" THEN ps
                       ELSE [ps EXCEPT !.pc = "raised"]
    /\ UNCHANGED <<json_dir, indexer, disk, sb, bm25, query, phase, call, pc,
                   msg, local, worker, gui>>

\* the text has no more lines: the last flush_group and the return
ParseEnd ==
    /\ parser.pc = "lines"
    /\ parser' = [FlushGroup(parser) EXCEPT !.pc = "returned"]
    /\ UNCHANGED <<json_dir, indexer, disk, sb, bm25, query, phase, call, pc,
                   msg, local, worker, gui>>

NextParser ==
    \/ ParseLine
    \/ ParseEnd

SpecParser == InitIdle /\ [][NextParser]_vars

\* RetrievalAgent.retrieve(q): on_user_message sets the query, calls
\* run(top_k_sem=5, top_k_bm25=3) and joins the chunks; retrieve splits the
\* content again.  An exception of run leaves through both.
Retrieve ==
    /\ phase = "ready"
    /\ \E q \in Queries :
          \E I \in SearchResults(Len(sb.index), TopKSem) :
             LET r == RunOp(sb, bm25, q, TopKSem, TopKBm25, I, TRUE) IN
             /\ call' = [op         |-> "retrieve",
                         query      |-> q,
                         run        |-> r,
                         content    |-> IF r.outcome = "returned"
                                        THEN MessageContent(r.result_chunks)
                                        ELSE <<>>,
                         chunks     |-> IF r.outcome = "returned"
                                        THEN RetrieveSplit(
                                                 MessageContent(r.result_chunks))
                                        ELSE <<>>,
                         outcome    |-> r.outcome]
             /\ bm25' = IF QueryOp(sb, I).err /= "none" THEN bm25
                        ELSE BM25AfterScoreSubset(bm25, Split(normalize(q)))
             /\ query' = q
    /\ phase' = "called"
    /\ UNCHANGED <<json_dir, indexer, disk, sb, pc, msg, local,
                   worker, parser, gui>>

NextRetrieve ==
    \/ LoadAndFlatten
    \/ BuildIndex
    \/ HybridInit
    \/ Retrieve
    \/ Return

SpecRetrieve == Init /\ [][NextRetrieve]_vars

\* The user presses return in the query box.
HandleQuery ==
    /\ gui.queries < MaxQueries
    /\ \E text \in GuiQueries, raises \in BOOLEAN,
          run_chunks \in ListsUpTo(ChunkPool, MaxChunks) :
          /\ raises => run_chunks = <<>>
          /\ gui' = HandleQueryOp(gui, text, raises, Retrieved(run_chunks))
    /\ UNCHANGED <<json_dir, indexer, disk, sb, bm25, query, phase, call, pc,
                   msg, local, worker, parser>>

\* The yes and no buttons are children of confirm_widget: they can be
\* pressed while it is shown.
ConfirmYes ==
    /\ gui.confirm_widget = "shown"
    /\ gui' = ConfirmYesOp(gui)
    /\ UNCHANGED <<json_dir, indexer, disk, sb, bm25, query, phase, call, pc,
                   msg, local, worker, parser>>

ConfirmNo ==
    /\ gui.confirm_widget = "shown"
    /\ gui' = ConfirmNoOp(gui)
    /\ UNCHANGED <<json_dir, indexer, disk, sb, bm25, query, phase, call, pc,
                   msg, local, worker, parser>>

ClearResults ==
    /\ gui' = ClearResultsOp(gui)
    /\ UNCHANGED <<json_dir, indexer, disk, sb, bm25, query, phase, call, pc,
                   msg, local, worker, parser>>

\* show_trends_panel, show_query_panel, show_generate_panel: each hides
\* the confirmation widget
ShowPanel ==
    /\ gui' = [gui EXCEPT !.confirm_widget = "hidden"]
    /\ UNCHANGED <<json_dir, indexer, disk, sb, bm25, query, phase, call, pc,
                   msg, local, worker, parser>>

NextGui ==
    \/ HandleQuery
    \/ ConfirmYes
    \/ ConfirmNo
    \/ ClearResults
    \/ ShowPanel

SpecGui == InitIdle /\ [][NextGui]_vars

\* The retriever and its preprocessor queried both ways: through run and
\* through score_subset directly.
NextQuery ==
    \/ LoadAndFlatten
    \/ BuildIndex
    \/ HybridInit
    \/ Run
    \/ ScoreSubset
    \/ Return

SpecQuery == Init /\ [][NextQuery]_vars

\* =================================================================== claims
QTokens(q) == Split(normalize(q))

RunReturned == call.op = "run" /\ call.outcome = "returned"
ScoreSubsetReturned == call.op = "score_subset" /\ call.outcome = "returned"

\* the file and entry the semantic chunk chunk_id was flattened from
SemSrcOf(chunk_id) == sb.src[PyIndexOf(sb.ids, chunk_id) + 1]

\* C1: whenever run returns, it returns at most top_k_bm25 (the spec's
\* top_k_final) chunks, for every query and every top_k_sem, top_k_bm25 >= 0.
C1_AtMostTopKFinal ==
    RunReturned => Len(call.result_chunks) <= call.top_k

\* C1 witness: run returned exactly top_k_bm25 >= 1 chunks although more
\* candidates were scored.
C1_Witness ==
    /\ RunReturned
    /\ call.top_k >= 1
    /\ Len(call.scores) > call.top_k
    /\ Len(call.result_chunks) = call.top_k

\* C2 (as claimed): no chunk run returns begins with "Section:".
C2_NoLeadingSection ==
    RunReturned =>
        \A i \in 1..Len(call.result_chunks) :
            ~StartsWith(call.result_chunks[i], SecPrefix)

\* C3 (as claimed): every chunk run returns is non-empty.
C3_NonEmptyChunks ==
    RunReturned =>
        \A i \in 1..Len(call.result_chunks) : call.result_chunks[i] /= <<>>

\* C4 (as claimed): with both indices built from the same corpus directory,
\* the integer run passes to score_subset for a semantic hit is the lexical
\* position of the chunk flattened from the same file and entry.
C4_IdSpacesAligned ==
    (call.op = "run" /\ sb.dir = json_dir) =>
        \A i \in 1..Len(call.sem_hits) :
            /\ PyInRange(bm25.src, call.candidate_ids[i])
            /\ PyAt(bm25.src, call.candidate_ids[i]) = SemSrcOf(call.sem_hits[i])

\* C5 (as claimed): a semantic hit whose chunk has no entry in the lexical
\* index is surfaced.  run has no warning channel, so the only way it could
\* surface the hit is by not returning normally.
C5_MismatchSurfaced ==
    (/\ call.op = "run"
     /\ \E i \in 1..Len(call.sem_hits) :
            SemSrcOf(call.sem_hits[i]) \notin Range(bm25.src))
    => call.outcome /= "returned"

\* C7 (as claimed): over indices built from zero chunks run returns the
\* empty list and raises nothing.
C7_EmptyCorpusEmptyResult ==
    (call.op = "run" /\ sb.index = <<>> /\ bm25.N = 0) =>
        (call.outcome = "returned" /\ call.result_chunks = <<>>)

\* C8: score_subset never raises, whatever the index, the candidate set and
\* the query, and the query terms without postings or idf entry contribute
\* nothing: the scores are those of the query with these terms removed.
C8_ScoreSubsetTotal ==
    call.op = "score_subset" =>
        /\ call.outcome = "returned"
        /\ LET known(tok) == tok \in DOMAIN bm25.postings
                             /\ tok \in DOMAIN bm25.idf
           IN call.scores =
                  ScoreTokens(bm25, SelectSeq(QTokens(call.query), known),
                              Range(call.candidate_ids),
                              [err |-> "none", scores |-> <<>>]).scores

\* C8 witness: a query with a term the corpus does not hold was scored and
\* some candidate received a score.
C8_Witness ==
    /\ ScoreSubsetReturned
    /\ \E tok \in Range(QTokens(call.query)) : tok \notin DOMAIN bm25.postings
    /\ call.scores /= <<>>

\* C9: every chunk index score_subset returns is one of candidate_ids and
\* its chunk holds at least one normalized query term.
C9_OnlyMatchingCandidates ==
    ScoreSubsetReturned =>
        \A i \in 1..Len(call.bm25_hits) :
            LET doc_id == call.bm25_hits[i].doc_id IN
            /\ doc_id \in Range(call.candidate_ids)
            /\ PyInRange(bm25.normalised_chunks, doc_id)
            /\ \E tok \in Range(QTokens(call.query)) :
                   tok \in Range(Split(PyAt(bm25.normalised_chunks, doc_id)))

\* C9 witness: a chunk was returned while another chunk that holds a query
\* term was left out because it is no candidate.
C9_Witness ==
    /\ ScoreSubsetReturned
    /\ call.bm25_hits /= <<>>
    /\ \E d \in 0..(bm25.N - 1) :
           /\ d \notin Range(call.candidate_ids)
           /\ \E tok \in Range(QTokens(call.query)) :
                  tok \in Range(Split(PyAt(bm25.normalised_chunks, d)))

\* C10: score_subset returns min(top_k, number of scored candidates) of the
\* scored candidates, in non-increasing score order, and no scored candidate
\* it leaves out has a strictly higher score than one it returns.
C10_TopKByScore ==
    ScoreSubsetReturned =>
        LET hits == call.bm25_hits IN
        /\ Len(hits) = Min(call.top_k, Len(call.scores))
        /\ Range(hits) \subseteq Range(call.scores)
        /\ \A i, j \in 1..Len(hits) : i < j => hits[i].score >= hits[j].score
        /\ \A i, j \in 1..Len(hits) : i /= j => hits[i].doc_id /= hits[j].doc_id
        /\ \A s \in Range(call.scores) \ Range(hits) :
               \A r \in Range(hits) : s.score <= r.score

\* C10 witness: two candidates were scored, the one scored first has the
\* lower score, and only one was returned.
C10_Witness ==
    /\ ScoreSubsetReturned
    /\ call.top_k = 1
    /\ Len(call.scores) >= 2
    /\ call.scores[1].score < call.scores[2].score
    /\ Len(call.bm25_hits) = 1

\* what on_user_message can return for the message q when it runs alone
AloneOutcomes(q) ==
    {[outcome |-> r.outcome, result |-> r.result_chunks] :
        r \in {RunOp(sb, bm25, q, TopKSem, TopKBm25, I, TRUE) :
                  I \in SearchResults(Len(sb.index), TopKSem)}}

\* C6 (as claimed): under every interleaving of two queries on the same
\* retriever, each call ends the way its own query ends when it runs alone.
C6_ConcurrentQueriesIsolated ==
    \A t \in Threads :
        pc[t] = "done" =>
            [outcome |-> local[t].outcome, result |-> local[t].result]
                \in AloneOutcomes(msg[t])

\* C11 (as claimed): when run hands score_subset the candidates in semantic
\* ranking order and two of them receive equal scores, the one that stands
\* earlier in candidate_ids stands earlier in the returned list.
C11_TiesKeepCandidateOrder ==
    RunReturned =>
        \A i, j \in 1..Len(call.bm25_hits) :
            (i < j /\ call.bm25_hits[i].score = call.bm25_hits[j].score) =>
                PyIndexOf(call.candidate_ids, call.bm25_hits[i].doc_id)
                    < PyIndexOf(call.candidate_ids, call.bm25_hits[j].doc_id)

\* the score score_subset gives chunk d for the query q among candidate_ids
ScoreAmong(q, candidate_ids, d) ==
    LET sc == ScoreSubsetOp(bm25, q, candidate_ids, bm25.N).scores
    IN {sc[i].score : i \in {k \in 1..Len(sc) : sc[k].doc_id = d}}

\* C12: the score a chunk received in score_subset is the score it receives
\* among every other candidate set that holds it: the other candidates never
\* change it.
C12_ScoreIndependentOfCandidates ==
    ScoreSubsetReturned =>
        \A i \in 1..Len(call.scores) :
            LET d == call.scores[i].doc_id IN
            \A others \in SUBSET (0..(bm25.N - 1)) :
                ScoreAmong(call.query, others \cup {d}, d)
                    = {call.scores[i].score}

\* C12 witness: two candidates of different length were scored together.
C12_Witness ==
    /\ ScoreSubsetReturned
    /\ \E i, j \in 1..Len(call.scores) :
           PyAt(bm25.doc_len, call.scores[i].doc_id)
               /= PyAt(bm25.doc_len, call.scores[j].doc_id)

\* C13: a query is read-only.  Every step in which run or score_subset is
\* called leaves N, avgdl, doc_len, df, postings, idf, raw_chunks and the
\* semantic chunk-ID list as they were, also for a query with terms the
\* vocabulary does not hold.
C13_QueryReadOnly ==
    [][(phase = "ready" /\ phase' = "called") =>
          /\ bm25'.N = bm25.N
          /\ bm25'.avgdl = bm25.avgdl
          /\ bm25'.doc_len = bm25.doc_len
          /\ bm25'.df = bm25.df
          /\ DOMAIN bm25'.postings = DOMAIN bm25.postings
          /\ bm25'.postings = bm25.postings
          /\ bm25'.idf = bm25.idf
          /\ bm25'.raw_chunks = bm25.raw_chunks
          /\ sb'.ids = sb.ids]_vars

\* C13 witness: a call over a non-empty index has returned for a query with
\* a term that is in no postings list.
C13_Witness ==
    /\ phase = "called"
    /\ call.op \in {"run", "score_subset"}
    /\ call.outcome = "returned"
    /\ bm25.N > 0
    /\ \E tok \in Range(QTokens(call.query)) : tok \notin DOMAIN bm25.postings

\* load_and_prepare has run on the preprocessor
Loaded == phase \in {"ready", "called"}

TokenCount(tokens, tok) == Cardinality({i \in 1..Len(tokens) : tokens[i] = tok})

\* the whitespace tokens of normalized chunk i
ChunkTokens(i) == Split(bm25.normalised_chunks[i + 1])

Vocabulary == UNION {Range(ChunkTokens(i)) : i \in 0..(bm25.N - 1)}

RECURSIVE SumOver(_, _)
SumOver(f, S) ==
    IF S = {} THEN 0
    ELSE LET x == CHOOSE y \in S : TRUE IN f[x] + SumOver(f, S \ {x})

\* C15: after load_and_prepare, postings[t] has an entry for chunk i exactly
\* when t occurs among the tokens of normalized chunk i, the entry is the
\* number of occurrences (at least 1), and df[t] is the number of entries of
\* postings[t].
C15_PostingsExact ==
    Loaded =>
        /\ \A t \in DOMAIN bm25.postings \cup DOMAIN bm25.df \cup Vocabulary :
               /\ t \in DOMAIN bm25.postings
               /\ t \in DOMAIN bm25.df
               /\ DOMAIN bm25.postings[t] \subseteq 0..(bm25.N - 1)
               /\ bm25.df[t] = Cardinality(DOMAIN bm25.postings[t])
               /\ \A i \in 0..(bm25.N - 1) :
                      LET c == TokenCount(ChunkTokens(i), t) IN
                      /\ (i \in DOMAIN bm25.postings[t]) <=> (c >= 1)
                      /\ (i \in DOMAIN bm25.postings[t]) => bm25.postings[t][i] = c

\* C15 witness: an index in which a term occurs twice in one chunk and not at
\* all in another.
C15_Witness ==
    /\ Loaded
    /\ \E t \in DOMAIN bm25.postings :
           /\ \E i \in DOMAIN bm25.postings[t] : bm25.postings[t][i] >= 2
           /\ \E i \in 0..(bm25.N - 1) : i \notin DOMAIN bm25.postings[t]

\* C16: after load_and_prepare, the sum of df over the vocabulary is the sum
\* over the chunks of their numbers of distinct terms.
C16_DfSumIsDistinctTermSum ==
    Loaded =>
        SumOver(bm25.df, DOMAIN bm25.df)
            = SumSeq([i \in 1..bm25.N |-> Cardinality(Range(ChunkTokens(i - 1)))])

\* C16 witness: an index in which a term occurs in two chunks and the sum of
\* df is larger than the vocabulary and smaller than the number of tokens.
C16_Witness ==
    /\ Loaded
    /\ \E t \in DOMAIN bm25.df : bm25.df[t] >= 2
    /\ SumOver(bm25.df, DOMAIN bm25.df) > Cardinality(DOMAIN bm25.df)
    /\ SumOver(bm25.df, DOMAIN bm25.df) < SumSeq(bm25.doc_len)

\* C17: after load_and_prepare, doc_len has N entries, avgdl * N is the sum
\* of doc_len, and avgdl is 0 when the corpus gave no chunk.
C17_AvgdlIsMean ==
    Loaded =>
        /\ Len(bm25.doc_len) = bm25.N
        /\ bm25.avgdl.den > 0
        /\ bm25.avgdl.num * bm25.N = SumSeq(bm25.doc_len) * bm25.avgdl.den
        /\ bm25.N = 0 => bm25.avgdl.num = 0

\* C17 witness: an index over chunks of different lengths whose mean length
\* is no whole number.
C17_Witness ==
    /\ Loaded
    /\ bm25.N >= 2
    /\ \E i, j \in 1..bm25.N : bm25.doc_len[i] /= bm25.doc_len[j]
    /\ SumSeq(bm25.doc_len) % bm25.N /= 0

\* C14 (as claimed): after any number of load_and_prepare calls on an
\* unchanged corpus, N, doc_len, df, postings, idf and avgdl are what a single
\* call on a new preprocessor gives, and df counts the entries of postings.
C14_IndexDeterminedByCorpus ==
    phase \in {"ready", "reloaded"} =>
        LET once == BM25LoadAndPrepare(BM25New, json_dir) IN
        /\ bm25.N = once.N
        /\ bm25.doc_len = once.doc_len
        /\ bm25.df = once.df
        /\ bm25.postings = once.postings
        /\ bm25.idf = once.idf
        /\ bm25.avgdl = once.avgdl
        /\ \A t \in DOMAIN bm25.df :
               bm25.df[t] = Cardinality(DOMAIN bm25.postings[t])

\* C18: for fixed idf, document length and average length, the contribution
\* computed for a term frequency is at least the contribution of every lower
\* term frequency and at most idf * (k1 + 1).
C18_ContributionSaturates ==
    (phase = "called" /\ call.op = "contribution") =>
        /\ \A f \in 1..call.freq :
               Contribution(call.idf, f, call.dl, call.avgdl) <= call.value
        /\ call.value * k1.den <= call.idf * (k1.num + k1.den)

\* C18 witness: a contribution for a term frequency above 1 that is strictly
\* larger than the contribution for frequency 1 and strictly below the bound.
C18_Witness ==
    /\ phase = "called"
    /\ call.op = "contribution"
    /\ call.freq >= 3
    /\ Contribution(call.idf, 1, call.dl, call.avgdl) < call.value
    /\ call.value * k1.den < call.idf * (k1.num + k1.den)

\* the embedding has no NaN or infinite component and its norm is within
\* 1e-6 of 1.0
WithinTolerance(e) == e.bad = "none" /\ e.dev <= Atol

\* C19 (as claimed): when an embedding computed during build_index has a norm
\* outside the 1e-6 tolerance of 1.0 or a NaN or infinite component,
\* build_index raises and none of the three artifacts is written.
C19_InvalidEmbeddingAborts ==
    (call.op = "build_index" /\ ~WithinTolerance(call.emb)) =>
        /\ call.outcome /= "returned"
        /\ disk = NoDisk

\* the chunk the build gave the id chunk_id
NamedChunk(chunk_id) ==
    LET g == LKIGather(indexer.file_chunks)
    IN {g[i].chunk : i \in {k \in 1..Len(g) : g[k].id = chunk_id}}

\* the index of ind holds as many vectors as ind has ids, and ids[i] names
\* the chunk whose vector is stored at position i
IdsAligned(ind) ==
    /\ Len(ind.index) = Len(ind.ids)
    /\ \A i \in 1..Len(ind.ids) : NamedChunk(ind.ids[i]) = {ind.index[i]}

\* C20 (as claimed): after every completed build_index and after every
\* completed load that gave the indexer an index, for any combination of
\* configured paths and also after a repeated build, the index and the
\* chunk-ID list are aligned.
C20_IndexAlignedWithIds ==
    /\ phase \in {"built", "rebuilt"} => IdsAligned(indexer)
    /\ (phase = "loaded" /\ sb.index /= "None") => IdsAligned(sb)

RECURSIVE WellFormedFiles(_)
WellFormedFiles(dir) ==
    IF dir = <<>> THEN <<>>
    ELSE (IF FileError(Head(dir).entries) = "none" THEN <<Head(dir)>> ELSE <<>>)
         \o WellFormedFiles(Tail(dir))

\* C22: with one malformed file in the corpus directory, load_and_prepare
\* and load_and_flatten return normally and hold the chunks of every other
\* file.
C22_MalformedFileDoesNotAbort ==
    /\ (phase \in {"prepared", "prepare_failed"}) =>
           /\ call.outcome = "returned"
           /\ bm25.raw_chunks =
                  [i \in 1..Len(BM25Gather(WellFormedFiles(json_dir))) |->
                      BM25Gather(WellFormedFiles(json_dir))[i].chunk]
    /\ (phase \in {"flattened_part", "flatten_failed"}) =>
           /\ call.outcome = "returned"
           /\ indexer.file_chunks = LKILoadAndFlatten(WellFormedFiles(json_dir))

\* a text that is empty or holds whitespace only
IsBlank(text) == Strip(text) = <<>>

\* the items of a list, at every depth, whose text is not blank
RECURSIVE NonBlankItems(_)
NonBlankItems(items) ==
    IF items = <<>> THEN 0
    ELSE (IF IsBlank(Head(items).text) THEN 0 ELSE 1)
         + NonBlankItems(Head(items).list)
         + NonBlankItems(Tail(items))

\* the block texts and items of an entry whose text is not blank
RECURSIVE NonBlankTexts(_)
NonBlankTexts(blocks) ==
    IF blocks = <<>> THEN 0
    ELSE (IF IsBlank(Head(blocks).text) THEN 0 ELSE 1)
         + NonBlankItems(Head(blocks).list)
         + NonBlankTexts(Tail(blocks))

\* the heading lines the lexical builder puts in front
HeadingLines(entry) ==
    (IF entry.Section /= <<>> THEN 1 ELSE 0)
    + (IF entry.Subsection /= <<>> THEN 1 ELSE 0)

\* C23: flatten_content emits one line for every block text and list item
\* that is not blank and nothing for a blank one: the lexical builder's
\* lines, after the headings, and the semantic builder's lines, before its
\* separators, are as many as the entry has non-blank texts.
C23_BlankContributesNothing ==
    call.op = "flatten_content" =>
        /\ Len(call.bm25.lines)
               = HeadingLines(call.entry) + NonBlankTexts(call.entry.Content)
        /\ Len(call.sb.lines) = NonBlankTexts(call.entry.Content)

\* The position of an item in an entry is its path: the index of its block,
\* then the index of the item in each list on the way down.  A block text
\* has the path of its block.
RECURSIVE ItemPaths(_)
ItemPaths(items) ==
    UNION {{<<i>>} \cup {<<i>> \o p : p \in ItemPaths(items[i].list)} :
               i \in 1..Len(items)}

ContentPaths(blocks) ==
    UNION {(IF IsBlank(blocks[bi].text) THEN {} ELSE {<<bi>>})
           \cup {<<bi>> \o p : p \in ItemPaths(blocks[bi].list)} :
               bi \in 1..Len(blocks)}

RECURSIVE ItemAtPath(_, _)
ItemAtPath(items, p) ==
    IF Len(p) = 1 THEN items[p[1]]
    ELSE ItemAtPath(items[p[1]].list, Tail(p))

\* p comes before q in document order: p is a proper prefix of q, or p is
\* smaller at the first index where they differ
PathBefore(p, q) ==
    \E k \in 0..Min(Len(p), Len(q)) :
        /\ \A j \in 1..k : p[j] = q[j]
        /\ \/ (k = Len(p) /\ k < Len(q))
           \/ (k < Len(p) /\ k < Len(q) /\ p[k + 1] < q[k + 1])

RECURSIVE InDocumentOrder(_)
InDocumentOrder(S) ==
    IF S = {} THEN <<>>
    ELSE LET first == CHOOSE p \in S : \A q \in S \ {p} : PathBefore(p, q)
         IN <<first>> \o InDocumentOrder(S \ {first})

EndsWith(s, suffix) ==
    Len(s) >= Len(suffix)
    /\ SubSeq(s, Len(s) - Len(suffix) + 1, Len(s)) = suffix

\* line is what the claim lets a builder with this marker emit for the text
\* at path p: a block text or a depth-0 item as its stripped text, an item
\* at depth d >= 1 as 8*d spaces, the marker, a space and the end of its text
LineFor(blocks, p, line, marker) ==
    IF Len(p) = 1 THEN line = Strip(blocks[p[1]].text)
    ELSE LET text == Strip(ItemAtPath(blocks[p[1]].list, Tail(p)).text)
             d    == Len(p) - 2
         IN IF d = 0
            THEN line = text /\ ~StartsWith(line, <<marker>>)
            ELSE /\ StartsWith(line, Spaces(8 * d) \o <<marker, SP>>)
                 /\ EndsWith(text, SubSeq(line, 8 * d + 3, Len(line)))

LinesInPreOrder(blocks, lines, marker) ==
    LET order == InDocumentOrder(ContentPaths(blocks))
    IN /\ Len(lines) = Len(order)
       /\ \A i \in 1..Len(order) : LineFor(blocks, order[i], lines[i], marker)

\* C24: the lines flatten_content emits for the blocks are the non-blank
\* block texts and the list items in document order, every item right
\* before its nested items; a depth-0 item is its own text, an item at depth
\* d >= 1 carries 8*d spaces and the builder's marker ("*" lexical, "-"
\* semantic).
C24_DepthFirstPreOrder ==
    call.op = "flatten_content" =>
        /\ LinesInPreOrder(call.entry.Content,
               SubSeq(call.bm25.lines, HeadingLines(call.entry) + 1,
                      Len(call.bm25.lines)), "*")
        /\ LinesInPreOrder(call.entry.Content, call.sb.lines, "-")

\* C24 witness: an entry with two items at depth 0, the first with an item
\* at depth 1 that has an item at depth 2, has been flattened.
C24_Witness ==
    /\ call.op = "flatten_content"
    /\ <<1, 1, 1, 1>> \in ContentPaths(call.entry.Content)
    /\ <<1, 2>> \in ContentPaths(call.entry.Content)
    /\ ~IsBlank(call.entry.Content[1].list[1].list[1].list[1].text)

\* the attempt's output, stripped, ends with a period
Complete(output) ==
    \E i \in 1..Len(output) :
        /\ output[i] = "."
        /\ \A j \in (i + 1)..Len(output) : output[j] \in WhiteSpace

Emitted(name) == {i \in 1..Len(worker.signals) : worker.signals[i].name = name}

\* C25: GenerateWorker.run asks for at most 3 generations, for none after
\* the first complete one, and once its loop is over emits finished exactly
\* once, as its last signal, with the output of the last generation.
C25_AtMostThreeAttemptsThenFinished ==
    /\ Len(worker.calls) <= 3
    /\ \A i \in 1..(Len(worker.calls) - 1) : ~Complete(worker.calls[i].output)
    /\ Cardinality(Emitted("finished")) <= 1
    /\ Emitted("finished") \subseteq {Len(worker.signals)}
    /\ worker.pc = "done" =>
           /\ Emitted("finished") = {Len(worker.signals)}
           /\ worker.signals[Len(worker.signals)].args
                  = <<worker.calls[Len(worker.calls)].output>>
    /\ Emitted("finished") /= {} => worker.pc = "done"

\* C25 witness: the run is over after two incomplete generations and a
\* complete one.
C25_Witness ==
    /\ worker.pc = "done"
    /\ Len(worker.calls) = 3
    /\ Complete(worker.calls[3].output)
    /\ Cardinality(Emitted("progress")) = 2

\* C26: every progress(current_attempt, max_attempts) emitted announces a
\* retry: current_attempt <= max_attempts, and by the end of the run a
\* generation numbered current_attempt has been asked for.
C26_ProgressAnnouncesARetry ==
    \A i \in Emitted("progress") :
        LET current_attempt == worker.signals[i].args[1]
            max_attempts    == worker.signals[i].args[2]
        IN /\ current_attempt <= max_attempts
           /\ worker.pc = "done" =>
                  \E c \in 1..Len(worker.calls) :
                      worker.calls[c].attempt = current_attempt

\* C27: a group that flush_group has appended to data is final: no later
\* line of the document changes it, and data only grows at its end.
C27_FlushedGroupsAreFinal ==
    [][/\ Len(parser'.data) >= Len(parser.data)
       /\ \A g \in 1..Len(parser.data) : parser'.data[g] = parser.data[g]]_vars

\* every item of lst, depth levels down, carries the text of its level
RECURSIVE StoredAtLevel(_, _)
StoredAtLevel(lst, depth) ==
    \A i \in 1..Len(lst) :
        /\ lst[i].text = <<Bullet, SP>> \o LevelText(depth)
        /\ StoredAtLevel(lst[i].list, depth + 1)

\* C28: whatever the levels of the <ITEM> lines, parse_document does not
\* raise, and every item is stored at the nesting depth of its level.
C28_ItemStoredAtItsLevel ==
    /\ parser.err = "none"
    /\ \A i \in 1..Len(parser.current_blocks) :
           StoredAtLevel(parser.current_blocks[i].list, 0)
    /\ \A g \in 1..Len(parser.data) :
           \A i \in 1..Len(parser.data[g].Content) :
               StoredAtLevel(parser.data[g].Content[i].list, 0)

\* C29: retrieve returns the list of chunks run returned for the query:
\* the same length, the same chunks, the same order.
C29_RetrieveReturnsRunChunks ==
    (call.op = "retrieve" /\ call.outcome = "returned") =>
        call.chunks = call.run.result_chunks

\* C30: in the confirmation flow, whenever the confirmation widget is shown
\* current_chunk_idx is an index of chunks; a confirm_no moves to the next
\* chunk and puts it on the screen, or, past the last chunk, hides the
\* widget and sets waiting_for_retry; a confirm_yes records the chunk that
\* was put on the screen last.
C30_ConfirmationFlow ==
    [][/\ gui'.confirm_widget = "shown" =>
              /\ 0 <= gui'.current_chunk_idx
              /\ gui'.current_chunk_idx < Len(gui'.chunks)
       /\ ConfirmNo =>
              /\ gui'.current_chunk_idx = gui.current_chunk_idx + 1
              /\ IF gui'.current_chunk_idx < Len(gui.chunks)
                 THEN /\ gui'.confirm_widget = "shown"
                      /\ gui'.shown_idx = gui'.current_chunk_idx
                      /\ gui'.extraction_display[Len(gui'.extraction_display)].body
                             = Body(gui.chunks[gui'.current_chunk_idx + 1])
                 ELSE /\ gui'.confirm_widget = "hidden"
                      /\ gui'.waiting_for_retry
       /\ ConfirmYes =>
              /\ gui.shown_idx = gui.current_chunk_idx
              /\ gui'.confirmed_results[Len(gui'.confirmed_results)].chunk
                     = gui.chunks[gui.shown_idx + 1]]_vars

\* C30 witness: a chunk was confirmed for one query, and every chunk of
\* another query of two chunks was rejected.
C30_Witness ==
    /\ gui.confirmed_results /= <<>>
    /\ gui.waiting_for_retry
    /\ gui.confirm_widget = "hidden"
    /\ Len(gui.chunks) = 2
    /\ gui.current_chunk_idx = 2
====
